---- MODULE Spec2Model ----
(***************************************************************************)
(* Model of the /render request handler of the ffmpeg renderer.            *)
(*                                                                         *)
(* Three versions of the server are modelled side by side; the variable    *)
(* `variant` says which server file the process is running:                *)
(*   "part_001"  - src/unnamed/part_001 ("robust version", linear scaling) *)
(*   "part_002"  - src/unnamed/part_002, its second server file (the same  *)
(*                 handler with square-root damped scaling)                *)
(*   "server_js" - src/server.js                                           *)
(*                                                                         *)
(* Node runs one callback at a time, so every action below is the code     *)
(* that runs between two awaits of the async handler.  The external        *)
(* collaborators (axios, the write streams, ffprobe, ffmpeg, GCS, the      *)
(* callback endpoint) answer nondeterministically.                         *)
(***************************************************************************)
EXTENDS Integers, Sequences, FiniteSets, TLC

VARIABLES
    variant,      \* which server file runs
    req,          \* req[r]: the request (headers and JSON body), fixed per request
    pc,           \* pc[r]: the await the handler of r is suspended at
    steps,        \* steps[r]: pipeline steps r has executed, in order
    failed,       \* failed[r]: the fatal step that failed for r, or "none"
                  \* ("ENCODE": non-zero exit code, "ENCODE_SPAWN": not started)
    fsFiles,      \* the /tmp file system: path -> request whose data it holds
    written,      \* written[r]: paths r created
    videoResolution, \* videoResolution[r]: <<width, height>> getVideoResolution returned
    watermarkInput,  \* watermarkInput[r]: watermark asset path, or "null"
    ffArgs,       \* ffArgs[r]: the encoder invocation built for r
    upload,       \* upload[r]: the uploadToGCS call of r and its result
    bucket,       \* the object store: key -> local path uploaded under it
    callbackPost, \* callbackPost[r]: body POSTed to callback_url
    callbackResult, \* callbackResult[r]: how the callback POST settled, or "none"
    wmFetch,      \* wmFetch[r]: how the watermark fetch ended, or "none" if never tried
    response,     \* response[r]: the HTTP response sent to the caller
    subtitles,    \* subtitles[r]: the subtitle document framesToAss built for r
    call,         \* a call of a utility function made on its own: the arguments
    ret           \* the value that call returned, or NoRet before it returns

vars == <<variant, req, pc, steps, failed, fsFiles, written, videoResolution,
          watermarkInput, ffArgs, upload, bucket, callbackPost, callbackResult,
          wmFetch, response, subtitles, call, ret>>

\* the variables of the utility functions called on their own
fnVars == <<call, ret>>

----------------------------------------------------------------------------
(* Bounds *)

\* Date.now() readings available to a request
MaxTime == 2

\* the longest time in milliseconds of the range given to secToAss in full
MaxMs == 300

\* the longest list of frames given to framesToAss in full
MaxFrames == 2

----------------------------------------------------------------------------
(* JavaScript values *)

\* `undefined`; a template literal prints it as the text "undefined"
Undefined == "undefined"

\* !v for the values that occur in a request
Falsy(v) == v \in {Undefined, ""}

\* a || b
Or(a, b) == IF Falsy(a) THEN b ELSE a

ENV_RENDER_SECRET == "s3cret"

RENDER_SECRET == Or(ENV_RENDER_SECRET, "change_me")

TMP_DIR == "/tmp"

\* path.join(dir, name) for a name without separators
PathJoin(dir, name) == dir \o "/" \o name

Variants == {"part_001", "part_002", "server_js"}

\* the two server files that probe the video, fetch the watermark asset and
\* position the captions with \pos
Robust(v) == v \in {"part_001", "part_002"}

----------------------------------------------------------------------------
(* Requests *)

Headers      == {Undefined, "", "wrong", "s3cret"}
BodySecrets  == {Undefined, "wrong", "s3cret"}
JobIds       == {Undefined, "a", "b"}
VideoUrls    == {Undefined, "http://video"}
FramesVals   == {Undefined, "frames"}
CallbackUrls == {Undefined, "http://callback"}
WatermarkUrls == {Undefined, "http://watermark"}
PlanTiers    == {"free", "trial", "paid"}

Requests ==
    [header : Headers, render_secret : BodySecrets, job_id : JobIds,
     video_url : VideoUrls, frames : FramesVals, callback_url : CallbackUrls,
     watermark_url : WatermarkUrls, plan_tier : PlanTiers]

\* requests that pass authentication and validation in both variants
ValidRequests ==
    [header : {"s3cret"}, render_secret : {Undefined}, job_id : {"a", "b"},
     video_url : {"http://video"}, frames : {"frames"},
     callback_url : CallbackUrls,
     watermark_url : WatermarkUrls, plan_tier : {"free"}]

Reqs == DOMAIN req

\* the requests of the concurrent specification
ParReqs == {1, 2}

----------------------------------------------------------------------------
(* Values of the per-request variables before the handler sets them *)

NoResponse == [code |-> 0, body |-> [status |-> "none"]]
NoUpload   == [destName |-> "none", localPath |-> "none", publicUrl |-> "none"]
NoPost     == [status |-> "none"]
NoArgs     == [inputs |-> <<>>, filterComplex |-> <<>>, maps |-> <<>>, out |-> "none"]
NoDoc      == [PlayResX |-> 0, PlayResY |-> 0, events |-> <<>>]
NoCall     == [fn |-> "none"]
NoRet      == [fn |-> "none"]

----------------------------------------------------------------------------
(* Temporary files and storage key of a job *)

inputPath(job_id)     == PathJoin(TMP_DIR, "in-" \o job_id \o ".mp4")
assPath(job_id)       == PathJoin(TMP_DIR, "subs-" \o job_id \o ".ass")
debugAssPath(job_id)  == PathJoin(TMP_DIR, "ass-debug-" \o job_id \o ".ass")
watermarkPath(job_id) == PathJoin(TMP_DIR, "watermark-" \o job_id \o ".png")
outPath(job_id)       == PathJoin(TMP_DIR, "out-" \o job_id \o ".mp4")

\* mutant of destName: the key is not scoped by the job
destName_noJob(job_id, now) == "renders/" \o ToString(now) \o ".mp4"

\* `renders/${job_id}-${Date.now()}.mp4`
destName(job_id, now) == "renders/" \o job_id \o "-" \o ToString(now) \o ".mp4"

\* the signed URL getSignedUrl returns for an object
signedUrl(key) == "https://storage/" \o key

----------------------------------------------------------------------------
(* Decisions of the handler *)

\* mutant of provided: the inline field takes precedence over the header
provided_bodyFirst(q) == Or(Or(q.render_secret, q.header), "")

\* const provided = headerSecret || bodySecret || ''
provided(q) == Or(Or(q.header, q.render_secret), "")

unauthorized(q) == provided(q) # RENDER_SECRET

\* the required-field test of each variant
missingFields(v, q) ==
    IF Robust(v)
    THEN Falsy(q.video_url) \/ Falsy(q.job_id)
    ELSE Falsy(q.video_url) \/ Falsy(q.frames)

\* shouldAddWatermark (part_001) / addWatermark (server.js)
shouldAddWatermark(v, q) ==
    IF Robust(v)
    THEN q.plan_tier = "free"
    ELSE q.plan_tier \in {"free", "trial"}

\* part_001 fetches the watermark asset; server.js never reads watermark_url
fetchesWatermark(v, q) ==
    Robust(v) /\ shouldAddWatermark(v, q) /\ ~Falsy(q.watermark_url)

\* what each variant does when the source stream errors after the download
\* has started: server.js listens for 'error' on the response stream and
\* rejects; part_001 listens on the write stream only, whose 'finish' and
\* 'error' never fire, so the awaited promise never settles
streamErrorRejects(v) == v = "server_js"

\* ff.on('close', code => code === 0 ? resolve : reject)
encodeOk(code) == code = 0

----------------------------------------------------------------------------
(* Composition graph and encoder arguments *)

\* one filter of the chain: [ins...]f=opts[out]
Stage(ins, f, opts, out) == [ins |-> ins, f |-> f, opts |-> opts, out |-> out]

\* the video stream of the i-th file passed with -i, as a pad: `i:v`
VideoOf(i) == ToString(i) \o ":v"

SYSTEM_FONTS_DIR == "/usr/local/share/fonts/custom"

\* mutant of assFilter: the burn stage is not told where the fonts are
assFilter_noFontsDir(v, job_id, in, out) ==
    Stage(<<in>>, "ass",
          IF Robust(v)
          THEN [filename |-> "'" \o assPath(job_id) \o "'"]
          ELSE [filename |-> assPath(job_id)],
          out)

\* `ass=filename='${quotedAssPath}':fontsdir='${quotedFontsDir}'`, and in
\* server.js `ass=filename=${assPath}:fontsdir=/app/fonts`
assFilter(v, job_id, in, out) ==
    Stage(<<in>>, "ass",
          IF Robust(v)
          THEN [filename |-> "'" \o assPath(job_id) \o "'",
                fontsdir |-> "'" \o SYSTEM_FONTS_DIR \o "'"]
          ELSE [filename |-> assPath(job_id), fontsdir |-> "/app/fonts"],
          out)

\* the text watermark of each server file
drawtext(v, in, out) ==
    Stage(<<in>>, "drawtext",
          IF Robust(v)
          THEN [text |-> "'AiVideoCaptioner'", fontsize |-> "16",
                fontcolor |-> "white@0.7", x |-> "main_w-tw-18", y |-> "18"]
          ELSE [font |-> "'Sans'", text |-> "'YourBrand'", fontsize |-> "28",
                fontcolor |-> "white@0.7", x |-> "main_w-tw-10",
                y |-> "main_h-th-10"],
          out)

\* mutant of maps: the audio is always taken from the first input
maps_audioOfFirstInput(out, i) == <<"[" \o out \o "]", "0:a?">>

\* '-map', '[out]', '-map', 'i:a?'
maps(out, i) == <<"[" \o out \o "]", ToString(i) \o ":a?">>

\* the pad labels each server file gives to the stages of its graph
Labels(v) ==
    CASE v = "part_001" -> [scale |-> "wm_scaled", overlay |-> "v_wm",
                            drawtext |-> "v_wm", ass |-> "v"]
      [] v = "part_002" -> [scale |-> "wm", overlay |-> "v",
                            drawtext |-> "v_wm", ass |-> "outv"]
      [] OTHER          -> [drawtext |-> "tmpv", ass |-> "v"]

\* the three branches of part_001 and part_002 and the two of server.js
buildFfArgs(v, q, wmInput) ==
    LET l == Labels(v) IN
    IF shouldAddWatermark(v, q)
    THEN IF Robust(v) /\ wmInput # "null"
         THEN [inputs |-> <<wmInput, inputPath(q.job_id)>>,
               filterComplex |->
                 << Stage(<<VideoOf(0)>>, "scale", [w |-> "-1", h |-> "28"], l.scale),
                    Stage(<<VideoOf(1), l.scale>>, "overlay",
                          [x |-> "main_w-overlay_w-18", y |-> "18"], l.overlay),
                    assFilter(v, q.job_id, l.overlay, l.ass) >>,
               maps |-> maps(l.ass, 1),
               out |-> outPath(q.job_id)]
         ELSE [inputs |-> <<inputPath(q.job_id)>>,
               filterComplex |->
                 << drawtext(v, VideoOf(0), l.drawtext),
                    assFilter(v, q.job_id, l.drawtext, l.ass) >>,
               maps |-> maps(l.ass, 0),
               out |-> outPath(q.job_id)]
    ELSE [inputs |-> <<inputPath(q.job_id)>>,
          filterComplex |-> << assFilter(v, q.job_id, VideoOf(0), l.ass) >>,
          maps |-> maps(l.ass, 0),
          out |-> outPath(q.job_id)]

\* the watermark mode an encoder invocation realises
WatermarkMode(args) ==
    IF \E i \in DOMAIN args.filterComplex : args.filterComplex[i].f = "overlay"
    THEN "IMAGE"
    ELSE IF \E i \in DOMAIN args.filterComplex : args.filterComplex[i].f = "drawtext"
         THEN "TEXT"
         ELSE "NONE"

----------------------------------------------------------------------------
(* Response and callback bodies *)

errorBody(msg) == [status |-> "error", error |-> msg]

\* res.json({ status: 'success', job_id, video_url: publicUrl })
\* (JSON.stringify drops a property whose value is undefined)
successBody(job_id, publicUrl) ==
    IF job_id = Undefined
    THEN [status |-> "success", video_url |-> publicUrl]
    ELSE [status |-> "success", job_id |-> job_id, video_url |-> publicUrl]

\* the 500 body sent when ffmpeg exits with a non-zero code
ffmpegFailedBody(v) ==
    IF Robust(v)
    THEN [status |-> "error", error |-> "ffmpeg failed", details |-> "stderr"]
    ELSE errorBody("ffmpeg failed: ffmpeg exit code 1")

\* the body of axios.post(callback_url, ...)
\* (reservation_id is not among the modelled request fields: it is undefined
\* and dropped from the JSON body, as is an undefined job_id)
callbackBody(v, job_id, publicUrl) ==
    IF Robust(v)
    THEN [render_secret |-> RENDER_SECRET, job_id |-> job_id,
          status |-> "success", video_url |-> publicUrl]
    ELSE IF job_id = Undefined
    THEN [render__secret |-> RENDER_SECRET,
          status |-> "success", video_url |-> publicUrl]
    ELSE [render__secret |-> RENDER_SECRET,
          job_id |-> job_id, status |-> "success", video_url |-> publicUrl]

\* mutant of responseAfterCallback: a failed callback fails the request
responseAfterCallback_failSurfaces(outcome, job_id, publicUrl) ==
    IF outcome = "ok"
    THEN [code |-> 200, body |-> successBody(job_id, publicUrl)]
    ELSE [code |-> 500, body |-> errorBody("callback failed")]

\* the response after the callback POST settled with `outcome`: the catch
\* block only logs, and the handler falls through to the success response
responseAfterCallback(outcome, job_id, publicUrl) ==
    [code |-> 200, body |-> successBody(job_id, publicUrl)]

----------------------------------------------------------------------------
(* Text and numbers *)

\* A JavaScript string is modelled as the sequence of its characters, an
\* object as a record that has only the properties that are present, and a
\* fractional number as the exact ratio num/den of two integers.

\* the characters String.prototype.trim and the regular expression \s remove
WhiteSpace == {" ", "\t", "\n", "\r", "\f"}

RECURSIVE trimStart(_)
trimStart(s) ==
    IF s # <<>> /\ Head(s) \in WhiteSpace THEN trimStart(Tail(s)) ELSE s

RECURSIVE trimEnd(_)
trimEnd(s) ==
    IF s # <<>> /\ s[Len(s)] \in WhiteSpace
    THEN trimEnd(SubSeq(s, 1, Len(s) - 1))
    ELSE s

\* s.trim()
trim(s) == trimEnd(trimStart(s))

\* o[k] || d for a numeric property (a missing property and 0 are falsy)
NumOr(o, k, d) == IF k \in DOMAIN o /\ o[k] # 0 THEN o[k] ELSE d

\* Number.isFinite(o[k]) ? o[k] : d, and o[k] != null ? o[k] : d
NumElse(o, k, d) == IF k \in DOMAIN o THEN o[k] ELSE d

\* o[k] && o[k].trim(): the property is a string with a non-blank character
HasText(o, k) == k \in DOMAIN o /\ trim(o[k]) # <<>>

Max(a, b) == IF a >= b THEN a ELSE b

Min(a, b) == IF a <= b THEN a ELSE b

Ratio(num, den) == [num |-> num, den |-> den]

\* t / k
Over(t, k) == Ratio(t.num, t.den * k)

\* t + k
Plus(t, k) == Ratio(t.num + k * t.den, t.den)

\* Math.round(t): the nearest integer, halves rounded up
Round(t) == (2 * t.num + t.den) \div (2 * t.den)

\* Math.round(x * Math.sqrt(num / den)) for x >= 0: the n with
\* (n - 1/2)^2 <= x^2 * num / den < (n + 1/2)^2
RoundSqrt(x, num, den) ==
    LET q == (4 * x * x * num) \div den
    IN CHOOSE n \in 0..(x * (num \div den + 1)) :
           /\ n = 0 \/ (2 * n - 1) * (2 * n - 1) <= q
           /\ (2 * n + 1) * (2 * n + 1) > q

DigitChars == <<"0", "1", "2", "3", "4", "5", "6", "7", "8", "9">>

\* String(n) for an integer n >= 0
RECURSIVE NumToString(_)
NumToString(n) ==
    IF n < 10
    THEN <<DigitChars[n + 1]>>
    ELSE NumToString(n \div 10) \o <<DigitChars[(n % 10) + 1]>>

\* mutant of padStart: the text is not padded
padStart_none(s, targetLength, padString) == s

\* s.padStart(targetLength, padString) for a one-character padString
RECURSIVE padStart(_, _, _)
padStart(s, targetLength, padString) ==
    IF Len(s) >= targetLength
    THEN s
    ELSE padStart(<<padString>> \o s, targetLength, padString)

----------------------------------------------------------------------------
(* Time codec *)

\* The whole-millisecond times t, among those that reach secToAss in this
\* model (every t below 4000 ms and the members of LongTimes), for which
\* IEEE-754 double arithmetic evaluates (tSec - Math.floor(tSec)) * 100 to
\* just below the integer it equals exactly, so that Math.floor yields one
\* centisecond less (0.29 * 100 is 28.999999999999996).
FractionRoundsDown ==
    {290, 570, 580}
    \cup {1130 + 10 * k : k \in 0..9} \cup {1380 + 10 * k : k \in 0..7}
    \cup {1630 + 10 * k : k \in 0..3} \cup {1880 + 10 * k : k \in 0..3}
    \cup {2010 + 20 * k : k \in 0..10} \cup {2260 + 20 * k : k \in 0..9}
    \cup {2510 + 20 * k : k \in 0..7} \cup {2760 + 20 * k : k \in 0..7}
    \cup {3010 + 20 * k : k \in 0..10} \cup {3260 + 20 * k : k \in 0..9}
    \cup {3510 + 20 * k : k \in 0..7} \cup {3760 + 20 * k : k \in 0..7}
    \cup {3599990, 7325290, 359999990}

\* Math.floor((tSec - Math.floor(tSec)) * 100)
cs(tSec) ==
    LET exact == (100 * (tSec.num % tSec.den)) \div tSec.den
        perMs == tSec.den \div 1000
    IN IF /\ tSec.num % perMs = 0
          /\ (tSec.num \div perMs) \in FractionRoundsDown
       THEN exact - 1
       ELSE exact

\* secToAss(tSec) for a finite tSec >= 0 (the isFinite guard of part_001 and
\* part_002 changes nothing for a finite argument)
secToAss(tSec) ==
    LET whole == tSec.num \div tSec.den
        h == whole \div 3600
        m == (whole % 3600) \div 60
        s == whole % 60
    IN NumToString(h) \o <<":">> \o padStart(NumToString(m), 2, "0")
           \o <<":">> \o padStart(NumToString(s), 2, "0")
           \o <<".">> \o padStart(NumToString(cs(tSec)), 2, "0")

----------------------------------------------------------------------------
(* Colour codec *)

\* A JavaScript value whose type matters: undefined, a number, or a string
JsUndefined == [type |-> "undefined"]

JsNumber(n) == [type |-> "number", val |-> n]

JsString(s) == [type |-> "string", val |-> s]

\* !x
Not(x) ==
    \/ x.type = "undefined"
    \/ x.type = "number" /\ x.val = 0
    \/ x.type = "string" /\ x.val = <<>>

LowerCase ==
    <<"a", "b", "c", "d", "e", "f", "g", "h", "i", "j", "k", "l", "m",
      "n", "o", "p", "q", "r", "s", "t", "u", "v", "w", "x", "y", "z">>

UpperCase ==
    <<"A", "B", "C", "D", "E", "F", "G", "H", "I", "J", "K", "L", "M",
      "N", "O", "P", "Q", "R", "S", "T", "U", "V", "W", "X", "Y", "Z">>

\* s.toUpperCase()
toUpperCase(s) ==
    [i \in DOMAIN s |->
        IF \E k \in DOMAIN LowerCase : LowerCase[k] = s[i]
        THEN UpperCase[CHOOSE k \in DOMAIN LowerCase : LowerCase[k] = s[i]]
        ELSE s[i]]

\* s.substring(from, to), with the 0-based indices of JavaScript
substring(s, from, to) == SubSeq(s, from + 1, Min(to, Len(s)))

\* s.startsWith(prefix)
startsWith(s, prefix) ==
    Len(s) >= Len(prefix) /\ SubSeq(s, 1, Len(prefix)) = prefix

\* hex[i] + hex[i]: past the end of the string hex[i] is undefined, and
\* undefined + undefined is NaN
charTwice(hex, i) ==
    IF i < Len(hex) THEN <<hex[i + 1], hex[i + 1]>> ELSE <<"N", "a", "N">>

OpaqueWhite == <<"&", "H", "0", "0", "F", "F", "F", "F", "F", "F">>

\* the names server.js replaces by a hex string before anything else
NamedColors ==
    [name \in {<<"w", "h", "i", "t", "e">>, <<"y", "e", "l", "l", "o", "w">>,
               <<"b", "l", "a", "c", "k">>} |->
        IF name[1] = "w" THEN <<"#", "F", "F", "F", "F", "F", "F">>
        ELSE IF name[1] = "y" THEN <<"#", "F", "7", "B", "5", "0", "0">>
        ELSE <<"#", "0", "0", "0", "0", "0", "0">>]

\* `&H${alpha}${b}${g}${r}`.toUpperCase() with alpha '00'
bgr(r, g, b) == toUpperCase(<<"&", "H", "0", "0">> \o b \o g \o r)

\* cssToAssColor(hex) as each server file defines it
cssToAssColor(v, hex) ==
    LET h == IF v = "server_js" /\ hex.type = "string" /\ hex.val \in DOMAIN NamedColors
             THEN JsString(NamedColors[hex.val])
             ELSE hex
    IN IF Not(h) \/ h.type # "string" \/ ~startsWith(h.val, <<"#">>)
       THEN OpaqueWhite
       ELSE IF Len(h.val) = 7
       THEN bgr(substring(h.val, 1, 3), substring(h.val, 3, 5), substring(h.val, 5, 7))
       ELSE IF Robust(v)
       THEN bgr(charTwice(h.val, 1), charTwice(h.val, 2), charTwice(h.val, 3))
       ELSE IF Len(h.val) = 4
       THEN bgr(substring(h.val, 1, 2) \o substring(h.val, 1, 2),
                substring(h.val, 2, 3) \o substring(h.val, 2, 3),
                substring(h.val, 3, 4) \o substring(h.val, 3, 4))
       ELSE OpaqueWhite

----------------------------------------------------------------------------
(* Caption text *)

\* each character c of s replaced by the text f[c]
RECURSIVE replaceEach(_, _)
replaceEach(s, f) ==
    IF s = <<>> THEN <<>>
    ELSE (IF Head(s) \in DOMAIN f THEN f[Head(s)] ELSE <<Head(s)>>)
             \o replaceEach(Tail(s), f)

\* t.replace(/\r\n?/g, '\n')
RECURSIVE normalizeNewlines(_)
normalizeNewlines(s) ==
    IF s = <<>> THEN <<>>
    ELSE IF Head(s) = "\r"
    THEN <<"\n">> \o normalizeNewlines(
             IF Len(s) >= 2 /\ s[2] = "\n" THEN Tail(Tail(s)) ELSE Tail(s))
    ELSE <<Head(s)>> \o normalizeNewlines(Tail(s))

\* the characters of [\x00-\x08\x0B\x0C\x0E-\x1F] that occur in the model
ControlChars == {"\f"}

\* escapeAssText(s) of part_001 and part_002, in the order of its statements
escapeAssText(s) ==
    LET t1 == trim(s)
        t2 == replaceEach(normalizeNewlines(t1), [c \in {"\n"} |-> <<"\\", "N">>])
        t3 == replaceEach(t2, [c \in {"\\"} |-> <<"\\", "\\">>])
        t4 == replaceEach(t3, [c \in {"{", "}"} |-> <<"\\", c>>])
    IN SelectSeq(t4, LAMBDA c : c \notin ControlChars)

\* the length of the first word of a text that starts with a word
RECURSIVE wordLength(_)
wordLength(s) ==
    IF s = <<>> \/ Head(s) \in WhiteSpace THEN 0 ELSE 1 + wordLength(Tail(s))

\* s.split(/\s+/).filter(w => w.length > 0)
RECURSIVE split(_)
split(s) ==
    LET t == trimStart(s)
    IN IF t = <<>> THEN <<>>
       ELSE <<SubSeq(t, 1, wordLength(t))>>
                \o split(SubSeq(t, wordLength(t) + 1, Len(t)))

\* the override tag server.js puts before the word of the given index; the
\* tag is one element of the text
fadeTag(index) ==
    "{\\alpha&HFF&\\t(" \o ToString(index * 50) \o ", "
        \o ToString(index * 50 + 500) \o ", \\alpha&H00&)}"

\* words.forEach(...) of server.js from the word of the given index on
RECURSIVE animate(_, _)
animate(words, index) ==
    IF words = <<>> THEN <<>>
    ELSE <<fadeTag(index)>>
             \o replaceEach(Head(words), [c \in {"\n"} |-> <<"\\", "N">>])
             \o <<" ">> \o animate(Tail(words), index + 1)

\* animatedText.trim() of server.js
animatedText(line) == trim(animate(split(line), 0))

\* the Text field of an event
eventText(v, line) ==
    IF Robust(v) THEN escapeAssText(line) ELSE animatedText(line)

----------------------------------------------------------------------------
(* Subtitle document *)

REF_HEIGHT == 1080

BASELINE == 360

\* Math.round(x * scale): scale is (videoHeight || REF_HEIGHT) / REF_HEIGHT
\* in part_001 and Math.sqrt(Math.max(0.01, (videoHeight || BASELINE) /
\* BASELINE)) in part_002.  The arithmetic is exact; on every style value and
\* video height drawn below it gives the integer IEEE-754 doubles give.
scaled(v, x, videoHeight) ==
    IF v = "part_001"
    THEN Round(Ratio(x * NumOr([h |-> videoHeight], "h", REF_HEIGHT), REF_HEIGHT))
    ELSE LET H == NumOr([h |-> videoHeight], "h", BASELINE)
         IN IF 100 * H < BASELINE
            THEN Round(Ratio(x, 10))
            ELSE RoundSqrt(x, H, BASELINE)

\* mutant of clamp: the ceiling is not applied
clamp_noCeiling(lo, hi, x) == Max(lo, x)

\* Math.max(lo, Math.min(hi, x))
clamp(lo, hi, x) == Max(lo, Min(hi, x))

\* the floor and ceiling of the two font sizes in each server file
ClampRange(v) ==
    IF v = "part_001"
    THEN [top |-> <<18, 280>>, bottom |-> <<20, 320>>]
    ELSE [top |-> <<14, 380>>, bottom |-> <<16, 420>>]

fontSizeTop(v, styles, videoHeight) ==
    clamp(ClampRange(v).top[1], ClampRange(v).top[2],
          scaled(v, NumOr(styles, "fontSizeTop", 40), videoHeight))

fontSizeBottom(v, styles, videoHeight) ==
    clamp(ClampRange(v).bottom[1], ClampRange(v).bottom[2],
          scaled(v, NumOr(styles, "fontSizeBottom", 52), videoHeight))

\* frames.some(f => f.line1 && f.line1.trim() && f.line2 && f.line2.trim())
twoLinePresent(frames) ==
    \E i \in DOMAIN frames : HasText(frames[i], "line1") /\ HasText(frames[i], "line2")

\* mutant of Y_pos_Line1: the offsets are added to the bottom line's position
Y_pos_Line1_offsetsAdded(Y_pos_Line2, fsTop, fsBottom, baseGap) ==
    Ratio(100 * Y_pos_Line2 + 66 * fsBottom + 28 * fsTop
              + (100 * baseGap + 22 * fsBottom), 100)

\* Y_pos_Line2 - fontSizeBottom * 0.66 - fontSizeTop * 0.28
\*             - (baseGap + fontSizeBottom * 0.22)
Y_pos_Line1(Y_pos_Line2, fsTop, fsBottom, baseGap) ==
    Ratio(100 * Y_pos_Line2 - 66 * fsBottom - 28 * fsTop
              - (100 * baseGap + 22 * fsBottom), 100)

\* the local variables of framesToAss (part_001, part_002) that place the lines
layout(v, frames, styles, videoHeight) ==
    LET fsTop == fontSizeTop(v, styles, videoHeight)
        fsBottom == fontSizeBottom(v, styles, videoHeight)
        padScaled == scaled(v, NumElse(styles, "paddingBottom", 120), videoHeight)
        baseGap == scaled(v, IF v = "part_001" THEN 20 ELSE 18, videoHeight)
        Y2 == (videoHeight - padScaled)
                  + (IF twoLinePresent(frames)
                     THEN Round(Ratio(28 * fsBottom, 100)) ELSE 0)
    IN [fontSizeTop |-> fsTop, fontSizeBottom |-> fsBottom,
        padScaled |-> padScaled, baseGap |-> baseGap,
        Y_pos_Line2 |-> Y2,
        Y_pos_Line1 |-> Y_pos_Line1(Y2, fsTop, fsBottom, baseGap)]

\* the style sizes and margins of server.js, which does not scale
marginsOf(styles) ==
    LET size1 == NumOr(styles, "fontSizeTop", 80)
        size2 == NumOr(styles, "fontSizeBottom", 80)
        marginV_Line2 == NumOr(styles, "paddingBottom", 100)
    IN [fontSizeTop |-> size1, fontSizeBottom |-> size2,
        marginV_Line2 |-> marginV_Line2,
        marginV_Line1 |-> marginV_Line2 + Round(Ratio(12 * size2, 10))]

\* the start and end of a frame in seconds, as each server file computes them
frameTimes(v, f) ==
    IF Robust(v)
    THEN LET startMs == NumElse(f, "start", 0)
             endMs == NumElse(f, "end", startMs + 2000)
         IN [s |-> Ratio(startMs, 1000), e |-> Ratio(endMs, 1000)]
    ELSE LET startSec == Ratio(NumOr(f, "start", 0), 1000)
         IN [s |-> startSec,
             e |-> IF "end" \in DOMAIN f /\ f.end # 0
                   THEN Ratio(f.end, 1000)
                   ELSE Over(Plus(startSec, 2000), 1000)]

StyleNames(v) ==
    IF Robust(v) THEN [top |-> "STYLE_TOP", bottom |-> "STYLE_BOTTOM"]
                 ELSE [top |-> "STYLE1", bottom |-> "STYLE2"]

\* a Dialogue line; pos is the \pos override, << >> when there is none
Dialogue(f, v, style, pos, line) ==
    [start |-> secToAss(frameTimes(v, f).s), end |-> secToAss(frameTimes(v, f).e),
     style |-> style, pos |-> pos, text |-> eventText(v, line)]

\* the event of line1 of a frame, if the line has text
topEvent(v, f, lay, centerX) ==
    IF HasText(f, "line1")
    THEN << Dialogue(f, v, StyleNames(v).top,
                     IF Robust(v) THEN <<centerX, Round(lay.Y_pos_Line1)>> ELSE <<>>,
                     f.line1) >>
    ELSE <<>>

\* the event of line2 of a frame, if the line has text
bottomEvent(v, f, lay, centerX) ==
    IF HasText(f, "line2")
    THEN << Dialogue(f, v, StyleNames(v).bottom,
                     IF Robust(v) THEN <<centerX, lay.Y_pos_Line2>> ELSE <<>>,
                     f.line2) >>
    ELSE <<>>

\* mutant of frameEvents: the bottom line is emitted only without a top line
frameEvents_elseIf(v, f, lay, centerX) ==
    IF topEvent(v, f, lay, centerX) # <<>>
    THEN topEvent(v, f, lay, centerX)
    ELSE bottomEvent(v, f, lay, centerX)

\* the callback of frames.flatMap: the events of one frame
frameEvents(v, f, lay, centerX) ==
    topEvent(v, f, lay, centerX) \o bottomEvent(v, f, lay, centerX)

RECURSIVE flatMap(_, _, _, _)
flatMap(v, frames, lay, centerX) ==
    IF frames = <<>> THEN <<>>
    ELSE frameEvents(v, Head(frames), lay, centerX)
             \o flatMap(v, Tail(frames), lay, centerX)

\* framesToAss(frames, styles, videoWidth, videoHeight): the header's canvas
\* size, the font sizes of the two styles, and the events; `layout` keeps the
\* local variables the positions come from
framesToAss(v, frames, styles, videoWidth, videoHeight) ==
    LET lay == IF Robust(v) THEN layout(v, frames, styles, videoHeight)
                            ELSE marginsOf(styles)
    IN [PlayResX |-> videoWidth, PlayResY |-> videoHeight,
        fontSizeTop |-> lay.fontSizeTop, fontSizeBottom |-> lay.fontSizeBottom,
        layout |-> lay,
        events |-> flatMap(v, frames, lay, Round(Ratio(videoWidth, 2)))]

----------------------------------------------------------------------------
(* File paths as texts *)

\* A path is a text whose elements are the characters of job_id, the
\* separator "/", and the literal pieces the handler writes around job_id
\* ("tmp", "in-", ".mp4"), each literal piece being one element.

\* the position of the first separator of a text, 0 when it has none
firstSlash(p) ==
    IF \E i \in DOMAIN p : p[i] = "/"
    THEN CHOOSE i \in DOMAIN p : p[i] = "/" /\ \A j \in 1..(i - 1) : p[j] # "/"
    ELSE 0

\* p.split('/')
RECURSIVE splitPath(_)
splitPath(p) ==
    IF firstSlash(p) = 0 THEN <<p>>
    ELSE <<SubSeq(p, 1, firstSlash(p) - 1)>>
             \o splitPath(SubSeq(p, firstSlash(p) + 1, Len(p)))

\* path.normalize of an absolute path, as a list of segments: empty and "."
\* segments are dropped, ".." removes the segment before it (none at the root)
RECURSIVE normalize(_, _)
normalize(segments, res) ==
    IF segments = <<>> THEN res
    ELSE IF Head(segments) \in {<<>>, <<".">>}
    THEN normalize(Tail(segments), res)
    ELSE IF Head(segments) = <<".", ".">>
    THEN normalize(Tail(segments),
                   IF res = <<>> THEN <<>> ELSE SubSeq(res, 1, Len(res) - 1))
    ELSE normalize(Tail(segments), Append(res, Head(segments)))

\* path.join(dir, name) for an absolute one-segment dir: the segments of
\* the normalized path
join(dir, name) == normalize(splitPath(<<"/", dir, "/">> \o name), <<>>)

\* the text of a path given by its segments
RECURSIVE pathText(_)
pathText(segments) ==
    IF segments = <<>> THEN <<>>
    ELSE <<"/">> \o Head(segments) \o pathText(Tail(segments))

\* the temporary files each handler derives from job_id
tempPaths(v, job_id) ==
    LET tmp(prefix, ext) == join("tmp", <<prefix>> \o job_id \o <<ext>>)
    IN IF Robust(v)
       THEN [inputPath |-> tmp("in-", ".mp4"),
             assPath |-> tmp("subs-", ".ass"),
             debugAssPath |-> tmp("ass-debug-", ".ass"),
             watermarkPath |-> tmp("watermark-", ".png"),
             outPath |-> tmp("out-", ".mp4")]
       ELSE [inputPath |-> tmp("in-", ".mp4"),
             assPath |-> tmp("subs-", ".ass"),
             outPath |-> tmp("out-", ".mp4")]

----------------------------------------------------------------------------
(* The filter graph as text *)

\* The graph text has one element per character of a path, per character
\* the graph syntax reserves, and per literal piece between them.

\* assPath.replace(/'/g, "\\'")
quoted(path) == replaceEach(path, [c \in {"'"} |-> <<"\\", "'">>])

\* the text of the burn filter: part_001 and part_002 put the path and the
\* fonts directory between single quotes, server.js writes them bare
assFilterText(v, path) ==
    IF Robust(v)
    THEN <<"ass=filename=", "'">> \o quoted(path)
             \o <<"'", ":", "fontsdir=", "'", SYSTEM_FONTS_DIR, "'">>
    ELSE <<"ass=filename=">> \o path \o <<":", "fontsdir=", "/app/fonts">>

\* filterComplex of a job without watermark: `[0:v]${assFilter}[v]`
filterComplexText(v, job_id) ==
    <<"[", VideoOf(0), "]">>
        \o assFilterText(v, pathText(tempPaths(v, job_id).assPath))
        \o <<"[", Labels(v).ass, "]">>

----------------------------------------------------------------------------
(* Resolution probe *)

\* the digits a text starts with
RECURSIVE leadingDigits(_)
leadingDigits(s) ==
    IF s = <<>> \/ \A d \in DOMAIN DigitChars : DigitChars[d] # Head(s)
    THEN <<>>
    ELSE <<Head(s)>> \o leadingDigits(Tail(s))

\* the number a text of digits denotes
RECURSIVE digitsValue(_)
digitsValue(s) ==
    IF s = <<>> THEN 0
    ELSE 10 * digitsValue(SubSeq(s, 1, Len(s) - 1))
             + (CHOOSE d \in 0..9 : DigitChars[d + 1] = s[Len(s)])

\* the number NaN: an object that holds it lacks the property
NaN == [k \in {} |-> 0]

\* parseInt(s, 10) of a text without sign, as the object {n: value}: the
\* number its leading digits denote, NaN when it starts with none
parseInt(s) ==
    IF leadingDigits(trimStart(s)) = <<>>
    THEN NaN
    ELSE [n |-> digitsValue(leadingDigits(trimStart(s)))]

\* const [w, h] = out.split(','): h is undefined when out has no comma, and
\* parseInt(undefined) is NaN
widthAndHeight(out) ==
    LET comma == IF \E i \in DOMAIN out : out[i] = ","
                 THEN CHOOSE i \in DOMAIN out :
                          out[i] = "," /\ \A j \in 1..(i - 1) : out[j] # ","
                 ELSE 0
    IN IF comma = 0
       THEN [w |-> parseInt(out), h |-> NaN]
       ELSE [w |-> parseInt(SubSeq(out, 1, comma - 1)),
             h |-> parseInt(SubSeq(out, comma + 1, Len(out)))]

\* what ffprobe does: it cannot be run or exits with an error (execSync
\* throws), or it prints the size, or it prints no size (no video stream)
ProbeOutcomes ==
    {[kind |-> "throw"]}
    \cup {[kind |-> "out", out |-> o] : o \in
            {<<"1", "2", "8", "0", ",", "7", "2", "0", "\n">>,
             <<"1", "9", "2", "0", ",", "1", "0", "8", "0">>,
             <<>>, <<"N", "/", "A", ",", "N", "/", "A">>}}

\* getVideoResolution(inputPath) for an outcome of ffprobe; a dimension that
\* is NaN is a missing property of the result.  part_001 and part_002 put
\* `|| 1920` and `|| 1080` after parseInt, server.js does not.
getVideoResolution(v, probe) ==
    IF probe.kind = "throw" THEN [width |-> 1920, height |-> 1080]
    ELSE LET p == widthAndHeight(trim(probe.out))
         IN IF Robust(v)
            THEN [width |-> NumOr(p.w, "n", 1920), height |-> NumOr(p.h, "n", 1080)]
            ELSE [k \in {d \in {"width", "height"} :
                            "n" \in DOMAIN (IF d = "width" THEN p.w ELSE p.h)} |->
                     IF k = "width" THEN p.w.n ELSE p.h.n]

\* the sizes the handler of part_001 and part_002 can get from its probe
ProbedSizes ==
    {<<getVideoResolution("part_001", p).width,
       getVideoResolution("part_001", p).height>> : p \in ProbeOutcomes}

----------------------------------------------------------------------------
(* Building blocks of the actions *)

\* mutant of Goto: the stretch `new` is run a second time before the await
Goto_again(r, new, label) ==
    /\ pc' = [pc EXCEPT ![r] = label]
    /\ steps' = [steps EXCEPT ![r] = @ \o new \o new]
    /\ response' = response

\* the handler of r executes `new` and suspends at the await `label`
Goto(r, new, label) ==
    /\ pc' = [pc EXCEPT ![r] = label]
    /\ steps' = [steps EXCEPT ![r] = @ \o new]
    /\ response' = response

\* the handler of r executes `new`, sends a response and returns
Reply(r, new, code, body) ==
    /\ pc' = [pc EXCEPT ![r] = "done"]
    /\ steps' = [steps EXCEPT ![r] = @ \o new \o <<"RESPOND">>]
    /\ response' = [response EXCEPT ![r] = [code |-> code, body |-> body]]

\* the awaited promise of r never settles: the handler never resumes
Hang(r) ==
    /\ pc' = [pc EXCEPT ![r] = "hung"]
    /\ UNCHANGED <<steps, response>>

\* a file is created (or truncated and rewritten) by r
CreateFile(r, path) ==
    /\ fsFiles' = [p \in DOMAIN fsFiles \cup {path} |->
                     IF p = path THEN r ELSE fsFiles[p]]
    /\ written' = [written EXCEPT ![r] = @ \cup {path}]

Fail(r, step) == failed' = [failed EXCEPT ![r] = step]

\* the frames array the token "frames" of a request body stands for
SampleFrames ==
    << [start |-> 0, end |-> 2000, line1 |-> <<"H", "i">>, line2 |-> <<"y", "o", "u">>] >>

\* the style object of a request that sends none
NoStyles == [k \in {} |-> 0]

\* the document the handler builds once the video is downloaded: part_001
\* and part_002 pass the probed resolution (and [] for frames that are not
\* an array); server.js calls framesToAss(frames, style), so that playResX
\* and playResY take their default values 1920 and 1080
subtitlesOf(v, q, res) ==
    IF Robust(v)
    THEN framesToAss(v, IF q.frames = Undefined THEN <<>> ELSE SampleFrames,
                     NoStyles, res[1], res[2])
    ELSE framesToAss(v, SampleFrames, NoStyles, 1920, 1080)

\* framesToAss(...) followed by `await fs.writeFile(assPath, ...)`
BuildSubtitles(r, new, res) ==
    /\ subtitles' = [subtitles EXCEPT ![r] = subtitlesOf(variant, req[r], res)]
    /\ Goto(r, new \o <<"BUILD_SUBTITLES">>, "write_ass")

\* the filter graph is built and ffmpeg is spawned
BuildGraphAndEncode(r) ==
    /\ ffArgs' = [ffArgs EXCEPT ![r] = buildFfArgs(variant, req[r], watermarkInput[r])]
    /\ Goto(r, <<"BUILD_GRAPH", "ENCODE">>, "encoding")

----------------------------------------------------------------------------
(* The /render handler, one action per stretch of code between two awaits *)

\* request arrives: auth check, validation, temp paths, axios(video_url)
Start(r) ==
    /\ pc[r] = "idle"
    /\ IF unauthorized(req[r])
       THEN /\ Reply(r, <<"AUTH">>, 401, errorBody("unauthorized"))
            /\ Fail(r, "AUTH")
       ELSE IF missingFields(variant, req[r])
       THEN /\ Reply(r, <<"AUTH", "VALIDATE">>, 400, errorBody("missing fields"))
            /\ Fail(r, "VALIDATE")
       ELSE /\ Goto(r, <<"AUTH", "VALIDATE", "DOWNLOAD_VIDEO">>, "video_request")
            /\ UNCHANGED failed
    /\ UNCHANGED <<subtitles, fnVars>>
    /\ UNCHANGED <<callbackResult, wmFetch, variant, req, fsFiles, written, videoResolution,
                   watermarkInput, ffArgs, upload, bucket, callbackPost>>

\* axios(video_url) settles: on a response the write stream is created and piped
VideoResponse(r) ==
    /\ pc[r] = "video_request"
    /\ \E outcome \in {"response", "reject"} :
         IF outcome = "response"
         THEN /\ CreateFile(r, inputPath(req[r].job_id))
              /\ Goto(r, <<>>, "video_stream")
              /\ UNCHANGED failed
         ELSE /\ Reply(r, <<>>, 500, errorBody("Video download failed"))
              /\ Fail(r, "DOWNLOAD_VIDEO")
              /\ UNCHANGED <<fsFiles, written>>
    /\ UNCHANGED <<subtitles, fnVars>>
    /\ UNCHANGED <<callbackResult, wmFetch, variant, req, videoResolution, watermarkInput, ffArgs,
                   upload, bucket, callbackPost>>

\* the piped download ends; on success the handler probes the resolution
\* (part_001 only) and goes on to the watermark fetch or the subtitles
VideoStream(r) ==
    /\ pc[r] = "video_stream"
    /\ \E outcome \in {"finish", "error"} :
         IF outcome = "error"
         THEN /\ Fail(r, "DOWNLOAD_VIDEO")
              /\ IF streamErrorRejects(variant)
                 THEN Reply(r, <<>>, 500, errorBody("aborted"))
                 ELSE Hang(r)
              /\ UNCHANGED <<videoResolution, subtitles>>
         ELSE /\ UNCHANGED failed
              /\ IF Robust(variant)
                 THEN \E res \in ProbedSizes :
                      /\ videoResolution' = [videoResolution EXCEPT ![r] = res]
                      /\ IF fetchesWatermark(variant, req[r])
                         THEN /\ Goto(r, <<"PROBE_RESOLUTION", "DOWNLOAD_WATERMARK">>,
                                      "watermark_request")
                              /\ UNCHANGED subtitles
                         ELSE BuildSubtitles(r, <<"PROBE_RESOLUTION">>, res)
                 ELSE /\ UNCHANGED videoResolution
                      /\ BuildSubtitles(r, <<>>, videoResolution[r])
    /\ UNCHANGED fnVars
    /\ UNCHANGED <<callbackResult, wmFetch, variant, req, fsFiles, written, watermarkInput, ffArgs,
                   upload, bucket, callbackPost>>

\* axios(watermark_url) settles (part_001): a rejection is caught and logged
WatermarkResponse(r) ==
    /\ pc[r] = "watermark_request"
    /\ \E outcome \in {"response", "reject"} :
         IF outcome = "response"
         THEN /\ CreateFile(r, watermarkPath(req[r].job_id))
              /\ Goto(r, <<>>, "watermark_stream")
              /\ UNCHANGED <<wmFetch, subtitles>>
         ELSE /\ BuildSubtitles(r, <<>>, videoResolution[r])
              /\ wmFetch' = [wmFetch EXCEPT ![r] = "reject"]
              /\ UNCHANGED <<fsFiles, written>>
    /\ UNCHANGED fnVars
    /\ UNCHANGED <<callbackResult, variant, req, failed, videoResolution, watermarkInput,
                   ffArgs, upload, bucket, callbackPost>>

\* the piped watermark download ends (part_001)
WatermarkStream(r) ==
    /\ pc[r] = "watermark_stream"
    /\ \E outcome \in {"finish", "error"} :
         IF outcome = "finish"
         THEN /\ watermarkInput' = [watermarkInput EXCEPT
                                      ![r] = watermarkPath(req[r].job_id)]
              /\ wmFetch' = [wmFetch EXCEPT ![r] = "ok"]
              /\ BuildSubtitles(r, <<>>, videoResolution[r])
         ELSE /\ Hang(r)
              /\ wmFetch' = [wmFetch EXCEPT ![r] = "error"]
              /\ UNCHANGED <<watermarkInput, subtitles>>
    /\ UNCHANGED fnVars
    /\ UNCHANGED <<callbackResult, variant, req, failed, fsFiles, written, videoResolution,
                   ffArgs, upload, bucket, callbackPost>>

\* fs.writeFile(assPath) settles
WriteAss(r) ==
    /\ pc[r] = "write_ass"
    /\ \E outcome \in {"ok", "throw"} :
         IF outcome = "ok"
         THEN /\ CreateFile(r, assPath(req[r].job_id))
              /\ UNCHANGED failed
              /\ IF Robust(variant)
                 THEN Goto(r, <<>>, "write_debug_ass") /\ UNCHANGED ffArgs
                 ELSE BuildGraphAndEncode(r)
         ELSE /\ Reply(r, <<>>, 500, errorBody("EACCES"))
              /\ Fail(r, "BUILD_SUBTITLES")
              /\ UNCHANGED <<fsFiles, written, ffArgs>>
    /\ UNCHANGED <<subtitles, fnVars>>
    /\ UNCHANGED <<callbackResult, wmFetch, variant, req, videoResolution, watermarkInput,
                   upload, bucket, callbackPost>>

\* fs.writeFile(debugAssPath) settles (part_001)
WriteDebugAss(r) ==
    /\ pc[r] = "write_debug_ass"
    /\ \E outcome \in {"ok", "throw"} :
         IF outcome = "ok"
         THEN /\ CreateFile(r, debugAssPath(req[r].job_id))
              /\ UNCHANGED failed
              /\ BuildGraphAndEncode(r)
         ELSE /\ Reply(r, <<>>, 500, errorBody("EACCES"))
              /\ Fail(r, "BUILD_SUBTITLES")
              /\ UNCHANGED <<fsFiles, written, ffArgs>>
    /\ UNCHANGED <<subtitles, fnVars>>
    /\ UNCHANGED <<callbackResult, wmFetch, variant, req, videoResolution, watermarkInput,
                   upload, bucket, callbackPost>>

\* ffmpeg closes with an exit code; on success the upload is started
FFmpegClose(r) ==
    /\ pc[r] = "encoding"
    /\ \E code \in {0, 1}, now \in 1..MaxTime :
         /\ failed' = [failed EXCEPT ![r] = IF code = 0 THEN @ ELSE "ENCODE"]
         /\ IF encodeOk(code)
            THEN /\ CreateFile(r, outPath(req[r].job_id))
                 /\ upload' = [upload EXCEPT ![r] =
                                 [destName |-> destName(req[r].job_id, now),
                                  localPath |-> outPath(req[r].job_id),
                                  publicUrl |-> "none"]]
                 /\ Goto(r, <<"UPLOAD">>, "uploading")
            ELSE /\ Reply(r, <<>>, 500, ffmpegFailedBody(variant))
                 /\ UNCHANGED <<fsFiles, written, upload>>
    /\ UNCHANGED <<subtitles, fnVars>>
    /\ UNCHANGED <<callbackResult, wmFetch, variant, req, videoResolution, watermarkInput, ffArgs,
                   bucket, callbackPost>>

\* ffmpeg cannot be started: the child emits 'error', which has no listener,
\* and the uncaught exception ends the process with every request in flight
FFmpegError(r) ==
    /\ pc[r] = "encoding"
    /\ pc' = [q \in Reqs |-> IF pc[q] \in {"idle", "done"} /\ q # r
                             THEN pc[q] ELSE "hung"]
    /\ Fail(r, "ENCODE_SPAWN")
    /\ UNCHANGED <<subtitles, fnVars>>
    /\ UNCHANGED <<callbackResult, wmFetch, variant, req, steps, fsFiles, written, videoResolution,
                   watermarkInput, ffArgs, upload, bucket, callbackPost, response>>

\* uploadToGCS settles; on success the callback is POSTed or the response sent
UploadDone(r) ==
    /\ pc[r] = "uploading"
    /\ \E outcome \in {"ok", "throw"} :
         IF outcome = "ok"
         THEN LET url == signedUrl(upload[r].destName) IN
              /\ bucket' = [k \in DOMAIN bucket \cup {upload[r].destName} |->
                              IF k = upload[r].destName
                              THEN upload[r].localPath ELSE bucket[k]]
              /\ upload' = [upload EXCEPT ![r].publicUrl = url]
              /\ UNCHANGED failed
              /\ IF ~Falsy(req[r].callback_url)
                 THEN /\ callbackPost' = [callbackPost EXCEPT ![r] =
                                            callbackBody(variant, req[r].job_id, url)]
                      /\ Goto(r, <<"CALLBACK">>, "callback")
                 ELSE /\ Reply(r, <<>>, 200, successBody(req[r].job_id, url))
                      /\ UNCHANGED callbackPost
         ELSE /\ Reply(r, <<>>, 500, errorBody("upload failed"))
              /\ Fail(r, "UPLOAD")
              /\ UNCHANGED <<bucket, upload, callbackPost>>
    /\ UNCHANGED <<subtitles, fnVars>>
    /\ UNCHANGED <<callbackResult, wmFetch, variant, req, fsFiles, written, videoResolution,
                   watermarkInput, ffArgs>>

\* the callback POST settles: answered, refused, or cut off by its 10 s timeout
CallbackDone(r) ==
    /\ pc[r] = "callback"
    /\ \E outcome \in {"ok", "fail", "timeout"} :
         LET resp == responseAfterCallback(outcome, req[r].job_id, upload[r].publicUrl)
         IN /\ Reply(r, <<>>, resp.code, resp.body)
            /\ callbackResult' = [callbackResult EXCEPT ![r] = outcome]
    /\ UNCHANGED <<subtitles, fnVars>>
    /\ UNCHANGED <<wmFetch, variant, req, failed, fsFiles, written, videoResolution,
                   watermarkInput, ffArgs, upload, bucket, callbackPost>>

----------------------------------------------------------------------------
(* The utility functions, called on their own *)

\* times in whole milliseconds: every time up to MaxMs, and some long ones
LongTimes ==
    {570, 999, 1000, 2290, 3999, 59990, 59999, 60000, 3599990, 3599999,
     3600000, 3661010, 7325290, 36000000, 359999990}

Times == 0..MaxMs \cup LongTimes

\* the objects that have the property k with a value of vals, or lack it
Opt(k, vals) == {[x \in {} |-> 0]} \cup {[x \in {k} |-> val] : val \in vals}

\* { ...a, ...b }
Merge(a, b) ==
    [x \in DOMAIN a \cup DOMAIN b |-> IF x \in DOMAIN b THEN b[x] ELSE a[x]]

\* the lists of at most MaxFrames frames taken from a set of frames
RECURSIVE ListsOf(_, _)
ListsOf(frameSet, n) ==
    IF n = 0 THEN {<<>>}
    ELSE ListsOf(frameSet, n - 1)
             \cup {<<f>> \o l : f \in frameSet, l \in ListsOf(frameSet, n - 1)}

Hi == <<"H", "i">>

You == <<"y", "o", "u">>

\* frames that differ in which lines they have: missing, empty, blank, text
LineFrames ==
    {Merge([start |-> 1000, end |-> 3000], Merge(l1, l2)) :
        l1 \in Opt("line1", {<<>>, <<" ">>, Hi}),
        l2 \in Opt("line2", {<<>>, <<" ", "\n">>, You})}

\* frames that differ in their start and end
TimedFrames ==
    {Merge([line1 |-> Hi], Merge(s, e)) :
        s \in Opt("start", {0, 290, 1000, 1500}),
        e \in Opt("end", {500, 1000, 1005, 3000})}

\* one list with a two-line frame, one with the two lines in separate frames
LayoutFrames ==
    { << [start |-> 0, end |-> 1000, line1 |-> Hi, line2 |-> You] >>,
      << [start |-> 0, end |-> 1000, line1 |-> Hi],
         [start |-> 1000, end |-> 2000, line2 |-> You] >> }

StyleConfigs ==
    {Merge(Merge(a, b), c) :
        a \in Opt("fontSizeTop", {64, 150}),
        b \in Opt("fontSizeBottom", {100, 150}),
        c \in Opt("paddingBottom", {0, 200})}

VideoSizes ==
    {<<36, 20>>, <<256, 144>>, <<426, 240>>, <<640, 360>>, <<854, 480>>,
     <<1280, 720>>, <<1920, 1080>>, <<1920, 1088>>, <<3840, 2160>>,
     <<7680, 4320>>}

FramesToAssCalls ==
    [fn : {"framesToAss"}, frames : ListsOf(LineFrames, MaxFrames),
     styles : {NoStyles}, size : {<<1920, 1080>>}]
    \cup [fn : {"framesToAss"}, frames : {<<f>> : f \in TimedFrames},
          styles : {NoStyles}, size : {<<1920, 1080>>}]
    \cup [fn : {"framesToAss"}, frames : LayoutFrames,
          styles : StyleConfigs, size : VideoSizes]

SecToAssCalls == [fn : {"secToAss"}, tSec : {Ratio(t, 1000) : t \in Times}]

\* secToAss(tSec) returns
SecToAss ==
    /\ call.fn = "secToAss"
    /\ ret = NoRet
    /\ ret' = [fn |-> "secToAss", value |-> secToAss(call.tSec)]
    /\ UNCHANGED <<variant, req, pc, steps, failed, fsFiles, written,
                   videoResolution, watermarkInput, ffArgs, upload, bucket,
                   callbackPost, callbackResult, wmFetch, response, subtitles,
                   call>>

\* framesToAss(frames, styles, videoWidth, videoHeight) returns
FramesToAss ==
    /\ call.fn = "framesToAss"
    /\ ret = NoRet
    /\ ret' = [fn |-> "framesToAss",
               value |-> framesToAss(variant, call.frames, call.styles,
                                     call.size[1], call.size[2])]
    /\ UNCHANGED <<variant, req, pc, steps, failed, fsFiles, written,
                   videoResolution, watermarkInput, ffArgs, upload, bucket,
                   callbackPost, callbackResult, wmFetch, response, subtitles,
                   call>>

\* the colours a style may carry: hex strings of both lengths and cases,
\* names, malformed strings, and values that are not strings
ColorInputs ==
    {JsUndefined, JsNumber(0), JsNumber(255), JsString(<<>>)}
    \cup {JsString(s) : s \in
            {<<"#", "F", "F", "F", "F", "F", "F">>, <<"#", "0", "0", "0", "0", "0", "0">>,
             <<"#", "F", "F", "D", "1", "0", "0">>, <<"#", "1", "a", "2", "B", "3", "c">>,
             <<"#", "F", "F", "F">>, <<"#", "a", "B", "c">>, <<"#", "1", "2", "3">>,
             <<"#", "1", "2">>, <<"#", "1">>, <<"#">>,
             <<"#", "1", "2", "3", "4">>, <<"#", "1", "2", "3", "4", "5", "6", "7">>,
             <<"#", "x", "y", "z">>,
             <<"F", "F", "F", "F", "F", "F">>, <<"1", "2", "3", "4", "5", "6", "7">>,
             <<"w", "h", "i", "t", "e">>, <<"y", "e", "l", "l", "o", "w">>,
             <<"b", "l", "a", "c", "k">>, <<"W", "h", "i", "t", "e">>,
             <<"n", "o", "t", "a", "c", "o", "l", "o", "r">>}}

CssToAssColorCalls == [fn : {"cssToAssColor"}, hex : ColorInputs]

\* cssToAssColor(hex) returns
CssToAssColor ==
    /\ call.fn = "cssToAssColor"
    /\ ret = NoRet
    /\ ret' = [fn |-> "cssToAssColor", value |-> cssToAssColor(variant, call.hex)]
    /\ UNCHANGED <<variant, req, pc, steps, failed, fsFiles, written,
                   videoResolution, watermarkInput, ffArgs, upload, bucket,
                   callbackPost, callbackResult, wmFetch, response, subtitles,
                   call>>

\* caption texts with line breaks of the three kinds, braces, backslashes,
\* surrounding white space and a control character
CaptionTexts ==
    {<<>>, Hi, <<" ", "H", "i", " ">>,
     <<"a", "\n", "b">>, <<"a", "\r", "\n", "b">>, <<"a", "\r", "b">>,
     <<"a", "\n", "\n", "b">>, <<"\n", "a", "\n">>,
     <<"{", "x", "}">>, <<"a", "\\", "b">>, <<"\\", "N">>,
     <<"{", "\\", "b", "1", "}", "H", "i">>, <<"a", "\\", "\n", "{">>,
     <<"a", "\f", "b">>}

EscapeAssTextCalls == [fn : {"escapeAssText"}, s : CaptionTexts]

\* escapeAssText(s) of part_001 and part_002 returns
EscapeAssText ==
    /\ call.fn = "escapeAssText"
    /\ Robust(variant)
    /\ ret = NoRet
    /\ ret' = [fn |-> "escapeAssText", value |-> escapeAssText(call.s)]
    /\ UNCHANGED <<variant, req, pc, steps, failed, fsFiles, written,
                   videoResolution, watermarkInput, ffArgs, upload, bucket,
                   callbackPost, callbackResult, wmFetch, response, subtitles,
                   call>>

\* frames whose captions carry markup characters and line breaks
MarkupFrames ==
    {[start |-> 0, end |-> 1000, line1 |-> t, line2 |-> u] :
        t \in CaptionTexts, u \in CaptionTexts}

FrameEventsCalls == [fn : {"frameEvents"}, frame : MarkupFrames]

\* framesToAss([frame]) returns: the events of the one frame are kept
FrameEvents ==
    /\ call.fn = "frameEvents"
    /\ ret = NoRet
    /\ ret' = [fn |-> "frameEvents",
               value |-> framesToAss(variant, <<call.frame>>, NoStyles,
                                     1920, 1080).events]
    /\ UNCHANGED <<variant, req, pc, steps, failed, fsFiles, written,
                   videoResolution, watermarkInput, ffArgs, upload, bucket,
                   callbackPost, callbackResult, wmFetch, response, subtitles,
                   call>>

\* job_id values as texts: plain, with characters the filter graph reserves,
\* and with path separators and ".." components
PlainJobIds == {<<"a">>, <<"j", "1">>}

ReservedJobIds ==
    {<<"a", ":", "b">>, <<"a", ";", "b">>, <<"a", ",", "b">>, <<"a", "[", "b">>,
     <<"a", "]", "b">>, <<"a", "'", "b">>, <<"a", "'">>, <<"a", "\\", "b">>,
     <<"a", " ", "b">>, <<"a", "=", "b">>}

PathJobIds ==
    {<<"a", "/", "b">>, <<".", ".">>, <<".">>, <<"/">>, <<"a", "/">>,
     <<".", ".", "/", "x">>, <<"/", ".", ".", "/", "x">>,
     <<"x", "/", ".", ".", "/", "y">>,
     <<"/", ".", ".", "/", ".", ".", "/", "e", "t", "c", "/", "x">>,
     <<"x", "/", ".", ".", "/", ".", ".", "/", ".", ".", "/", "y">>}

TempPathsCalls ==
    [fn : {"tempPaths"}, job_id : PlainJobIds \cup ReservedJobIds \cup PathJobIds]

\* the handler derives its temporary paths from job_id
TempPaths ==
    /\ call.fn = "tempPaths"
    /\ ret = NoRet
    /\ ret' = [fn |-> "tempPaths", value |-> tempPaths(variant, call.job_id)]
    /\ UNCHANGED <<variant, req, pc, steps, failed, fsFiles, written,
                   videoResolution, watermarkInput, ffArgs, upload, bucket,
                   callbackPost, callbackResult, wmFetch, response, subtitles,
                   call>>

FilterComplexCalls ==
    [fn : {"filterComplex"}, job_id : PlainJobIds \cup ReservedJobIds]

\* the handler builds the filter graph of a job without watermark
FilterComplex ==
    /\ call.fn = "filterComplex"
    /\ ret = NoRet
    /\ ret' = [fn |-> "filterComplex",
               value |-> filterComplexText(variant, call.job_id)]
    /\ UNCHANGED <<variant, req, pc, steps, failed, fsFiles, written,
                   videoResolution, watermarkInput, ffArgs, upload, bucket,
                   callbackPost, callbackResult, wmFetch, response, subtitles,
                   call>>

GetVideoResolutionCalls == [fn : {"getVideoResolution"}, probe : ProbeOutcomes]

\* getVideoResolution(inputPath) returns
GetVideoResolution ==
    /\ call.fn = "getVideoResolution"
    /\ ret = NoRet
    /\ ret' = [fn |-> "getVideoResolution",
               value |-> getVideoResolution(variant, call.probe)]
    /\ UNCHANGED <<variant, req, pc, steps, failed, fsFiles, written,
                   videoResolution, watermarkInput, ffArgs, upload, bucket,
                   callbackPost, callbackResult, wmFetch, response, subtitles,
                   call>>

\* the files that hold a /render handler with its own credential check
AuthFiles == {"part_001", "part_002", "server_js", "part_005"}

\* process.env.RENDER_SECRET: not set, set to the empty text, set to a secret
EnvSecrets == {Undefined, "", "s3cret"}

\* const RENDER_SECRET = process.env.RENDER_SECRET || 'change_me'; part_005
\* has no default: const RENDER_SECRET = process.env.RENDER_SECRET
renderSecret(file, env) ==
    IF file = "part_005" THEN env ELSE Or(env, "change_me")

\* the credential check lets the request through: provided === RENDER_SECRET;
\* part_005 compares the header alone, req.headers["x-render-secret"], which
\* is undefined when the header is missing
authorized(file, env, q) ==
    IF file = "part_005"
    THEN q.header = renderSecret(file, env)
    ELSE Or(Or(q.header, q.render_secret), "") = renderSecret(file, env)

AuthorizeCalls ==
    [fn : {"authorize"}, file : AuthFiles, env : EnvSecrets,
     header : Headers, render_secret : BodySecrets]

\* the credential check of a handler decides on a request
Authorize ==
    /\ call.fn = "authorize"
    /\ ret = NoRet
    /\ ret' = [fn |-> "authorize",
               value |-> authorized(call.file, call.env,
                                    [header |-> call.header,
                                     render_secret |-> call.render_secret])]
    /\ UNCHANGED <<variant, req, pc, steps, failed, fsFiles, written,
                   videoResolution, watermarkInput, ffArgs, upload, bucket,
                   callbackPost, callbackResult, wmFetch, response, subtitles,
                   call>>

----------------------------------------------------------------------------
(* Specifications *)

InitOf(requests, calls) ==
    /\ variant \in Variants
    /\ req \in requests
    /\ pc = [r \in DOMAIN req |-> "idle"]
    /\ steps = [r \in DOMAIN req |-> <<>>]
    /\ failed = [r \in DOMAIN req |-> "none"]
    /\ fsFiles = [p \in {} |-> 0]
    /\ written = [r \in DOMAIN req |-> {}]
    /\ videoResolution = [r \in DOMAIN req |-> <<0, 0>>]
    /\ watermarkInput = [r \in DOMAIN req |-> "null"]
    /\ ffArgs = [r \in DOMAIN req |-> NoArgs]
    /\ upload = [r \in DOMAIN req |-> NoUpload]
    /\ bucket = [k \in {} |-> ""]
    /\ callbackPost = [r \in DOMAIN req |-> NoPost]
    /\ callbackResult = [r \in DOMAIN req |-> "none"]
    /\ wmFetch = [r \in DOMAIN req |-> "none"]
    /\ response = [r \in DOMAIN req |-> NoResponse]
    /\ subtitles = [r \in DOMAIN req |-> NoDoc]
    /\ call \in calls
    /\ ret = NoRet

\* one request, any headers and body
Init == InitOf([{1} -> Requests], {NoCall})

\* two requests in flight together, both authenticated and complete
InitPar == InitOf([ParReqs -> ValidRequests], {NoCall})

\* no request: one call of a utility function of the server file `variant`
InitFn ==
    InitOf({<<>>}, SecToAssCalls \cup FramesToAssCalls \cup CssToAssColorCalls
                   \cup EscapeAssTextCalls \cup FrameEventsCalls
                   \cup TempPathsCalls \cup FilterComplexCalls
                   \cup GetVideoResolutionCalls \cup AuthorizeCalls)

Next ==
    \/ \E r \in Reqs : Start(r)
    \/ \E r \in Reqs : VideoResponse(r)
    \/ \E r \in Reqs : VideoStream(r)
    \/ \E r \in Reqs : WatermarkResponse(r)
    \/ \E r \in Reqs : WatermarkStream(r)
    \/ \E r \in Reqs : WriteAss(r)
    \/ \E r \in Reqs : WriteDebugAss(r)
    \/ \E r \in Reqs : FFmpegClose(r)
    \/ \E r \in Reqs : FFmpegError(r)
    \/ \E r \in Reqs : UploadDone(r)
    \/ \E r \in Reqs : CallbackDone(r)

NextFn ==
    \/ SecToAss
    \/ FramesToAss
    \/ CssToAssColor
    \/ EscapeAssText
    \/ FrameEvents
    \/ TempPaths
    \/ FilterComplex
    \/ GetVideoResolution
    \/ Authorize

Spec == Init /\ [][Next]_vars

SpecPar == InitPar /\ [][Next]_vars

SpecFn == InitFn /\ [][NextFn]_vars

\* the event loop runs every continuation whose awaited promise has settled
LiveSpec == Spec /\ WF_vars(Next)

----------------------------------------------------------------------------
(* Vocabulary of the properties *)

\* the pipeline steps in their specified order
StepOrder ==
    <<"AUTH", "VALIDATE", "DOWNLOAD_VIDEO", "PROBE_RESOLUTION",
      "DOWNLOAD_WATERMARK", "BUILD_SUBTITLES", "BUILD_GRAPH", "ENCODE",
      "UPLOAD", "CALLBACK", "RESPOND">>

\* (a failure to start the encoder, "ENCODE_SPAWN", belongs to the step ENCODE)
Rank(step) ==
    CHOOSE i \in DOMAIN StepOrder :
        StepOrder[i] = IF step = "ENCODE_SPAWN" THEN "ENCODE" ELSE step

Executed(r, step) == \E i \in DOMAIN steps[r] : steps[r][i] = step

Responded(r) == response[r] # NoResponse

\* a structured error response {status:'error', error}
IsErrorResponse(resp) ==
    /\ resp.code \in {400, 401, 500}
    /\ resp.body.status = "error"
    /\ "error" \in DOMAIN resp.body

\* the credential a request supplies: the header, or the inline field when
\* no header is given
Supplied(q) ==
    IF q.header \notin {Undefined, ""} THEN q.header ELSE q.render_secret

\* no side effect of the pipeline has happened for r
NoSideEffect(r) ==
    /\ written[r] = {}
    /\ ffArgs[r] = NoArgs
    /\ upload[r] = NoUpload
    /\ callbackPost[r] = NoPost
    /\ \A step \in {"DOWNLOAD_VIDEO", "DOWNLOAD_WATERMARK", "BUILD_SUBTITLES",
                    "ENCODE", "UPLOAD", "CALLBACK"} : ~Executed(r, step)

----------------------------------------------------------------------------
(* C1 - fatal errors abort the pipeline *)

\* once a fatal step of r has failed, no step that comes later in the
\* pipeline is executed for r, and a response, if one is sent, is an error
NoLaterStep(r) ==
    /\ \A i \in DOMAIN steps[r] :
           steps[r][i] # "RESPOND" => Rank(steps[r][i]) <= Rank(failed[r])
    /\ failed[r] \in {"AUTH", "VALIDATE", "DOWNLOAD_VIDEO", "BUILD_SUBTITLES"}
           => ffArgs[r] = NoArgs
    /\ failed[r] # "UPLOAD" => upload[r] = NoUpload
    /\ upload[r].publicUrl = "none"
    /\ callbackPost[r] = NoPost
    /\ Responded(r) => IsErrorResponse(response[r])

\* C1: once a fatal step of a request has failed (authentication, validation,
\* source-video download, encoder exit code other than 0, upload), no step
\* that comes later in the pipeline is executed for that request - no encode
\* after a failed download, no upload after a failed encode, no callback
\* after a failed encode or upload - and the request is answered with a
\* structured error response {status:'error', error}.  (The handler answers
\* in the same stretch of code in which it sees the failure, so "is
\* answered" is a state predicate.)
C1_FatalAborts ==
    \A r \in Reqs :
        failed[r] \in {"AUTH", "VALIDATE", "DOWNLOAD_VIDEO", "ENCODE", "UPLOAD"} =>
            /\ NoLaterStep(r)
            /\ Responded(r)
            /\ IsErrorResponse(response[r])

----------------------------------------------------------------------------
(* C2 - the success response *)

\* C2: a 200 / status 'success' response is sent only after the encoder
\* exited with code 0 and the upload succeeded; its job_id is the request's
\* job_id, its video_url is the URL the upload of this request returned, and
\* the uploaded object is the request's output file stored under the key
\* renders/<job_id>-<timestamp>.mp4.
C2_SuccessResponse ==
    \A r \in Reqs :
        (response[r].code = 200 \/ response[r].body.status = "success") =>
            /\ response[r].code = 200
            /\ response[r].body.status = "success"
            /\ "video_url" \in DOMAIN response[r].body
            /\ Executed(r, "ENCODE") /\ Executed(r, "UPLOAD")
            /\ failed[r] = "none"
            /\ IF req[r].job_id = Undefined
               THEN "job_id" \notin DOMAIN response[r].body
               ELSE /\ "job_id" \in DOMAIN response[r].body
                    /\ response[r].body.job_id = req[r].job_id
            /\ upload[r].publicUrl # "none"
            /\ response[r].body.video_url = upload[r].publicUrl
            /\ \E t \in 1..MaxTime :
                 /\ upload[r].destName =
                        "renders/" \o req[r].job_id \o "-" \o ToString(t) \o ".mp4"
                 /\ upload[r].publicUrl = "https://storage/" \o upload[r].destName
            /\ upload[r].destName \in DOMAIN bucket
            /\ upload[r].localPath = ffArgs[r].out
            /\ bucket[upload[r].destName] = ffArgs[r].out

\* C2 witness: a request was answered with the success response
C2_Witness ==
    \E r \in Reqs :
        /\ response[r].code = 200
        /\ response[r].body.video_url = "https://storage/renders/a-1.mp4"

----------------------------------------------------------------------------
(* C3 - authentication comes first *)

\* C3: a request whose supplied credential (the X-Render-Secret header, or
\* the inline render_secret field when no header is given) differs from the
\* configured shared secret is answered 401 {status:'error',
\* error:'unauthorized'}; the decision is taken before validation and before
\* any side effect, so the request never downloads, writes a temp file,
\* encodes, uploads or calls back.
C3_Unauthorized ==
    \A r \in Reqs :
        (pc[r] # "idle" /\ Supplied(req[r]) # RENDER_SECRET) =>
            /\ response[r] = [code |-> 401,
                              body |-> [status |-> "error", error |-> "unauthorized"]]
            /\ steps[r] = <<"AUTH", "RESPOND">>
            /\ pc[r] = "done"
            /\ NoSideEffect(r)

\* C3 witness: a request with a wrong header, the right inline secret and a
\* missing required field was handled and answered 401
C3_Witness ==
    \E r \in Reqs :
        /\ req[r].header = "wrong"
        /\ req[r].render_secret = RENDER_SECRET
        /\ Falsy(req[r].video_url)
        /\ response[r].code = 401

----------------------------------------------------------------------------
(* C4 - validation *)

\* C4: an authenticated request that lacks job_id or video_url is answered
\* 400 and performs no download, temp-file write, encode, upload or
\* callback; no temp file is ever named after a missing job_id.
C4_MissingField ==
    \A r \in Reqs :
        ( /\ pc[r] # "idle"
          /\ Supplied(req[r]) = RENDER_SECRET
          /\ (req[r].job_id = Undefined \/ req[r].video_url = Undefined) ) =>
            /\ response[r].code = 400
            /\ pc[r] = "done"
            /\ NoSideEffect(r)
            /\ "/tmp/in-undefined.mp4" \notin DOMAIN fsFiles

----------------------------------------------------------------------------
(* C5 - the callback never costs the caller the response *)

\* C5: after a successful upload the caller always gets the 200 success
\* response carrying the published URL, whether the callback POST succeeds,
\* fails or never answers (it is cut off by its own timeout): a callback
\* failure is absorbed and cannot hold the response back for ever.
C5_CallbackAbsorbed ==
    \A r \in {1} :
        (upload[r].publicUrl # "none")
            ~> ( /\ response[r].code = 200
                 /\ response[r].body.status = "success"
                 /\ response[r].body.video_url = upload[r].publicUrl )

\* C5 witness: the callback POST timed out and the caller has the 200
\* response with the published URL
C5_Witness ==
    \E r \in Reqs :
        /\ callbackResult[r] = "timeout"
        /\ callbackPost[r] # NoPost
        /\ response[r].code = 200
        /\ response[r].body.video_url = upload[r].publicUrl

----------------------------------------------------------------------------
(* C6 - the callback body *)

\* C6: the body POSTed to callback_url after a successful upload carries
\* render_secret (the shared secret), job_id, status 'success' and video_url,
\* the same video_url as the response sent to the caller.
C6_CallbackBody ==
    \A r \in Reqs :
        callbackPost[r] # NoPost =>
            /\ {"render_secret", "job_id", "status", "video_url"}
                   \subseteq DOMAIN callbackPost[r]
            /\ callbackPost[r].render_secret = RENDER_SECRET
            /\ callbackPost[r].job_id = req[r].job_id
            /\ callbackPost[r].status = "success"
            /\ callbackPost[r].video_url = upload[r].publicUrl
            /\ Responded(r) => response[r].body.video_url = callbackPost[r].video_url

----------------------------------------------------------------------------
(* C7 - temporary files *)

\* C7: on every exit path, every temporary file a request created has been
\* removed by the time its response is sent.
C7_TempFilesRemoved ==
    \A r \in Reqs :
        Responded(r) => \A p \in written[r] : p \notin DOMAIN fsFiles

----------------------------------------------------------------------------
(* C8 - concurrent jobs *)

\* the handler of r has started and has not returned
InFlight(r) == pc[r] \notin {"idle", "done", "hung"}

\* C8: two requests in flight at the same time, also with the same job_id,
\* write disjoint sets of temporary paths, so no file of one job is
\* overwritten by the other.
C8_DisjointTempPaths ==
    \A r1, r2 \in Reqs :
        (r1 # r2 /\ InFlight(r1) /\ InFlight(r2)) =>
            /\ written[r1] \cap written[r2] = {}
            /\ \A p \in written[r1] : fsFiles[p] = r1

----------------------------------------------------------------------------
(* C9 - watermark mode *)

\* C9: the watermark mode follows the selection table, tier first:
\* paid gives NONE and no asset download is attempted; free with a
\* watermark_url whose download does not fail gives IMAGE; free without
\* watermark_url gives TEXT; free with a watermark_url whose download fails
\* gives TEXT, and the failed download neither stops the job nor turns its
\* response into an error.
C9_WatermarkTable ==
    \A r \in Reqs :
        LET q == req[r]
            hasUrl == q.watermark_url # Undefined
            fetchFailed == wmFetch[r] \in {"reject", "error"}
        IN /\ q.plan_tier = "paid" =>
                 /\ wmFetch[r] = "none"
                 /\ ~Executed(r, "DOWNLOAD_WATERMARK")
           /\ fetchFailed =>
                 /\ pc[r] # "hung"
                 /\ (Responded(r) /\ failed[r] = "none") => response[r].code = 200
           /\ ffArgs[r] # NoArgs =>
                 WatermarkMode(ffArgs[r]) =
                     CASE q.plan_tier = "paid" -> "NONE"
                       [] q.plan_tier = "free" /\ hasUrl /\ ~fetchFailed -> "IMAGE"
                       [] q.plan_tier = "free" /\ hasUrl /\ fetchFailed -> "TEXT"
                       [] q.plan_tier = "free" /\ ~hasUrl -> "TEXT"
                       [] OTHER -> WatermarkMode(ffArgs[r])

----------------------------------------------------------------------------
(* C10 - order of the pipeline steps *)

OptionalSteps == {"DOWNLOAD_WATERMARK", "CALLBACK"}

\* C10: a request that ends with a success response has executed exactly
\* AUTH, VALIDATE, DOWNLOAD_VIDEO, PROBE_RESOLUTION, optional
\* DOWNLOAD_WATERMARK, BUILD_SUBTITLES, BUILD_GRAPH, ENCODE, UPLOAD, optional
\* CALLBACK, RESPOND, in this order, with no other step skipped.
C10_StepOrder ==
    \A r \in Reqs :
        response[r].code = 200 =>
            steps[r] = SelectSeq(StepOrder,
                                 LAMBDA s : s \notin OptionalSteps \/ Executed(r, s))

----------------------------------------------------------------------------
(* C11 - wiring of the composition graph *)

\* the pads produced by the stages that come before the i-th stage
EarlierOutputs(args, i) == {args.filterComplex[j].out : j \in 1..(i - 1)}

\* the video streams of the files passed with -i
InputVideoPads(args) ==
    {ToString(k) \o ":v" : k \in 0..(Len(args.inputs) - 1)}

\* C11: in the encoder invocation built for every watermark mode, every pad
\* a stage consumes is the output label of an earlier stage or the video
\* stream of an input file passed with -i, and no label is produced twice;
\* the video mapped to the output file is the output pad of the
\* subtitle-burn stage; the audio mapping is the optional audio stream of
\* the input index of the source video.  In IMAGE mode the watermark asset
\* is input 0 and the video is input 1: the scale stage reads input 0, the
\* overlay takes input 1 as its base and the scaled watermark on top, and
\* the audio comes from input 1.
C11_GraphWired ==
    \A r \in Reqs :
        ffArgs[r] # NoArgs =>
            LET a == ffArgs[r]
                g == a.filterComplex
                n == Len(g)
                video == "/tmp/in-" \o req[r].job_id \o ".mp4"
            IN /\ n >= 1
               /\ \A i \in 1..n : \A k \in DOMAIN g[i].ins :
                      g[i].ins[k] \in EarlierOutputs(a, i) \cup InputVideoPads(a)
               /\ \A i, j \in 1..n : i # j => g[i].out # g[j].out
               /\ g[n].f = "ass"
               /\ a.maps[1] = "[" \o g[n].out \o "]"
               /\ \E k \in 0..(Len(a.inputs) - 1) :
                      /\ a.inputs[k + 1] = video
                      /\ a.maps[2] = ToString(k) \o ":a?"
               /\ watermarkInput[r] # "null" /\ req[r].plan_tier = "free" =>
                      /\ a.inputs = <<watermarkInput[r], video>>
                      /\ g[1].f = "scale" /\ g[1].ins = <<"0:v">>
                      /\ g[2].f = "overlay" /\ g[2].ins = <<"1:v", g[1].out>>
                      /\ a.maps[2] = "1:a?"

\* C11 witness: an IMAGE-mode invocation was built by the second server file
\* of part_002, whose final pad is outv
C11_Witness ==
    \E r \in Reqs :
        /\ variant = "part_002"
        /\ Len(ffArgs[r].inputs) = 2
        /\ ffArgs[r].maps = <<"[outv]", "1:a?">>

----------------------------------------------------------------------------
(* C12 - the stages of the composition graph *)

\* the watermark mode the handler has decided on when it builds the graph
DecidedMode(r) ==
    IF ~shouldAddWatermark(variant, req[r]) THEN "NONE"
    ELSE IF watermarkInput[r] # "null" THEN "IMAGE"
    ELSE "TEXT"

\* C12: the composition graph consists of exactly these stages in this
\* order: in NONE mode the single subtitle-burn stage; in TEXT mode one
\* draw-text stage followed by the subtitle burn; in IMAGE mode a scale
\* stage, an overlay stage, then the subtitle burn.  In every mode the burn
\* is the last stage, consumes the output of the watermark stage (the raw
\* video in NONE mode), and is given both the path of the subtitle document
\* the request wrote and a font search directory.
C12_StageList ==
    \A r \in Reqs :
        ffArgs[r] # NoArgs =>
            LET g == ffArgs[r].filterComplex
                n == Len(g)
                burn == g[n]
                doc == "/tmp/subs-" \o req[r].job_id \o ".ass"
            IN /\ [i \in 1..n |-> g[i].f] =
                      CASE DecidedMode(r) = "NONE"  -> <<"ass">>
                        [] DecidedMode(r) = "TEXT"  -> <<"drawtext", "ass">>
                        [] DecidedMode(r) = "IMAGE" -> <<"scale", "overlay", "ass">>
               /\ burn.f = "ass"
               /\ burn.ins = IF DecidedMode(r) = "NONE"
                             THEN <<"0:v">> ELSE <<g[n - 1].out>>
               /\ ffArgs[r].inputs[Len(ffArgs[r].inputs)] =
                      "/tmp/in-" \o req[r].job_id \o ".mp4"
               /\ doc \in written[r]
               /\ "filename" \in DOMAIN burn.opts
               /\ burn.opts.filename \in {doc, "'" \o doc \o "'"}
               /\ "fontsdir" \in DOMAIN burn.opts
               /\ burn.opts.fontsdir \notin {"", "''"}

\* C12 witness: a three-stage IMAGE graph was built by part_001
C12_Witness ==
    \E r \in Reqs :
        /\ variant = "part_001"
        /\ Len(ffArgs[r].filterComplex) = 3
        /\ ffArgs[r].filterComplex[3].ins = <<"v_wm">>

----------------------------------------------------------------------------
(* Vocabulary of the properties of the subtitle document *)

IsDigit(c) == \E d \in 0..9 : DigitChars[d + 1] = c

DigitValue(c) == CHOOSE d \in 0..9 : DigitChars[d + 1] = c

\* the number a text of decimal digits denotes
RECURSIVE DecimalValue(_)
DecimalValue(s) ==
    IF s = <<>> THEN 0
    ELSE 10 * DecimalValue(SubSeq(s, 1, Len(s) - 1)) + DigitValue(s[Len(s)])

\* the fields of a timestamp H:MM:SS.cc, cut at the places of its grammar
Hours(c)   == SubSeq(c, 1, Len(c) - 9)
Minutes(c) == SubSeq(c, Len(c) - 7, Len(c) - 6)
Seconds(c) == SubSeq(c, Len(c) - 4, Len(c) - 3)
Centis(c)  == SubSeq(c, Len(c) - 1, Len(c))

\* the time in milliseconds a timestamp H:MM:SS.cc denotes
AssTimeMs(c) ==
    ((DecimalValue(Hours(c)) * 60 + DecimalValue(Minutes(c))) * 60
         + DecimalValue(Seconds(c))) * 1000
    + DecimalValue(Centis(c)) * 10

\* the line k of frame f has a character that is not white space
NonBlank(f, k) == k \in DOMAIN f /\ \E i \in DOMAIN f[k] : f[k][i] \notin WhiteSpace

\* the events a list of frames asks for: which line of which frame, in order
RECURSIVE WantedEvents(_)
WantedEvents(frames) ==
    IF frames = <<>> THEN <<>>
    ELSE (IF NonBlank(Head(frames), "line1")
          THEN << [kind |-> "top", line |-> Head(frames).line1] >> ELSE <<>>)
         \o (IF NonBlank(Head(frames), "line2")
             THEN << [kind |-> "bottom", line |-> Head(frames).line2] >> ELSE <<>>)
         \o WantedEvents(Tail(frames))

\* the text ends with the characters of the word
EndsWith(text, word) ==
    /\ Len(text) >= Len(word)
    /\ SubSeq(text, Len(text) - Len(word) + 1, Len(text)) = word

TopStyles == {"STYLE_TOP", "STYLE1"}

BottomStyles == {"STYLE_BOTTOM", "STYLE2"}

\* a call of framesToAss has returned
Built == ret.fn = "framesToAss"

----------------------------------------------------------------------------
(* C13 - the event list *)

\* C13: the event list of the subtitle document is exactly, for each input
\* frame in caller order, one top-style event if line1 is non-empty after
\* trimming followed by one bottom-style event if line2 is non-empty after
\* trimming: empty, missing or whitespace-only lines produce no event, and
\* no event is dropped, duplicated, merged or reordered.  (The lines of the
\* model are single words, so an event is recognised by the word it ends
\* with.)
C13_EventList ==
    Built =>
        LET ev == ret.value.events
            want == WantedEvents(call.frames)
        IN /\ Len(ev) = Len(want)
           /\ \A i \in DOMAIN want :
                  /\ want[i].kind = "top" => ev[i].style \in TopStyles
                  /\ want[i].kind = "bottom" => ev[i].style \in BottomStyles
                  /\ EndsWith(ev[i].text, want[i].line)

\* C13 witness: the frames Hi/you and ''/you gave exactly three events:
\* top, bottom, bottom
C13_Witness ==
    /\ Built
    /\ Len(call.frames) = 2
    /\ call.frames[1] = [start |-> 1000, end |-> 3000, line1 |-> Hi, line2 |-> You]
    /\ call.frames[2] = [start |-> 1000, end |-> 3000, line1 |-> <<>>, line2 |-> You]
    /\ Len(ret.value.events) = 3
    /\ ret.value.events[2].style \in BottomStyles
    /\ ret.value.events[3].style \in BottomStyles

----------------------------------------------------------------------------
(* C14 - an event starts before it ends *)

\* C14: every event of a generated subtitle document has a start timestamp
\* strictly earlier than its end timestamp, for every list of frames and
\* every start and end value the builder accepts.
C14_StartBeforeEnd ==
    Built =>
        \A i \in DOMAIN ret.value.events :
            AssTimeMs(ret.value.events[i].start) < AssTimeMs(ret.value.events[i].end)

----------------------------------------------------------------------------
(* C15 - the default end of a frame *)

\* C15: a frame given without an end time produces events whose end is
\* exactly 2000 ms after the frame's start, for every start value (the
\* frame's start as the event states it, a missing start being 0).
C15_DefaultEnd ==
    (Built /\ Len(call.frames) = 1 /\ "end" \notin DOMAIN call.frames[1]) =>
        \A i \in DOMAIN ret.value.events :
            AssTimeMs(ret.value.events[i].end)
                = AssTimeMs(ret.value.events[i].start) + 2000

----------------------------------------------------------------------------
(* C16 - the canvas of the subtitle document *)

\* C16: the canvas size written in the header of the subtitle document of a
\* request (PlayResX, PlayResY) equals the width and height obtained by
\* probing the source video this request downloaded.
C16_CanvasIsProbedSize ==
    \A r \in Reqs :
        subtitles[r] # NoDoc =>
            /\ Executed(r, "PROBE_RESOLUTION")
            /\ videoResolution[r] \in ProbedSizes
            /\ subtitles[r].PlayResX = videoResolution[r][1]
            /\ subtitles[r].PlayResY = videoResolution[r][2]

----------------------------------------------------------------------------
(* C17 - the top line is above the bottom line *)

\* a call of framesToAss of part_001 (linear scaling) or part_002 (square-root
\* damped scaling) has returned
Placed == Built /\ Robust(variant)

\* C17: for every style configuration and video resolution, the Y position
\* computed for the top line is strictly less than the Y position computed
\* for the bottom line, also after rounding to the integer positions written
\* into the events, in both the linear and the square-root scaling variant.
C17_TopAboveBottom ==
    Placed =>
        LET lay == ret.value.layout
            ev == ret.value.events
        IN /\ lay.Y_pos_Line1.num < lay.Y_pos_Line2 * lay.Y_pos_Line1.den
           /\ \A i, j \in DOMAIN ev :
                  (ev[i].style = "STYLE_TOP" /\ ev[j].style = "STYLE_BOTTOM")
                      => ev[i].pos[2] < ev[j].pos[2]

\* C17 witness: the square-root variant placed a two-line frame on a 240
\* pixel high video with the largest fonts and no bottom padding
C17_Witness ==
    /\ Placed
    /\ variant = "part_002"
    /\ call.size = <<426, 240>>
    /\ call.styles = [fontSizeTop |-> 150, fontSizeBottom |-> 150, paddingBottom |-> 0]
    /\ Len(ret.value.events) = 2
    /\ ret.value.events[1].style = "STYLE_TOP"
    /\ ret.value.events[2].pos[2] = ret.value.layout.Y_pos_Line2

----------------------------------------------------------------------------
(* C18 - both lines are inside the frame *)

\* C18: for all valid style configurations and video resolutions, both
\* computed line positions (top-line Y and bottom-line Y) lie within
\* [0, videoHeight].
C18_LinesInsideFrame ==
    Placed =>
        LET lay == ret.value.layout
            videoHeight == call.size[2]
        IN /\ 0 <= lay.Y_pos_Line1.num
           /\ lay.Y_pos_Line1.num <= videoHeight * lay.Y_pos_Line1.den
           /\ 0 <= lay.Y_pos_Line2
           /\ lay.Y_pos_Line2 <= videoHeight

----------------------------------------------------------------------------
(* C19 - font sizes grow with the video height and stay in their range *)

\* the font sizes framesToAss computes for the style of the call on a video
\* of the given size
SizesAt(size) ==
    LET doc == framesToAss(variant, call.frames, call.styles, size[1], size[2])
    IN [top |-> doc.fontSizeTop, bottom |-> doc.fontSizeBottom]

\* the higher videos of the model
Higher == {size \in VideoSizes : size[2] > call.size[2]}

\* the clamp range of each font size: 18..280 top and 20..320 bottom with
\* linear scaling, 14..380 top and 16..420 bottom with square-root scaling
InClampRange ==
    IF variant = "part_001"
    THEN /\ ret.value.fontSizeTop \in 18..280
         /\ ret.value.fontSizeBottom \in 20..320
    ELSE /\ ret.value.fontSizeTop \in 14..380
         /\ ret.value.fontSizeBottom \in 16..420

\* a font size is held at one of its clamp bounds
AtBound(kind, x) ==
    IF variant = "part_001"
    THEN x \in (IF kind = "top" THEN {18, 280} ELSE {20, 320})
    ELSE x \in (IF kind = "top" THEN {14, 380} ELSE {16, 420})

\* C19 as stated: for a fixed style, increasing the video height strictly
\* increases the computed top and bottom font sizes, or holds them constant
\* at a clamp bound, and every computed font size lies inside its clamp
\* range.
C19_FontsStrictlyIncrease ==
    Placed =>
        /\ InClampRange
        /\ \A size \in Higher :
               /\ \/ SizesAt(size).top > ret.value.fontSizeTop
                  \/ /\ SizesAt(size).top = ret.value.fontSizeTop
                     /\ AtBound("top", ret.value.fontSizeTop)
               /\ \/ SizesAt(size).bottom > ret.value.fontSizeBottom
                  \/ /\ SizesAt(size).bottom = ret.value.fontSizeBottom
                     /\ AtBound("bottom", ret.value.fontSizeBottom)

\* C19 amended: for a fixed style, increasing the video height never
\* decreases the computed top and bottom font sizes (they are rounded to
\* whole numbers, so a small increase of the height can leave them
\* unchanged away from the clamp bounds), and every computed font size lies
\* inside its clamp range.
C19_FontsNeverDecrease ==
    Placed =>
        /\ InClampRange
        /\ \A size \in Higher :
               /\ SizesAt(size).top >= ret.value.fontSizeTop
               /\ SizesAt(size).bottom >= ret.value.fontSizeBottom

\* C19 witness: on a 1080 pixel high video the linear variant computed the
\* sizes 40 and 52, which it also computes for 1088 pixels, and on a 4320
\* pixel high video both sizes of a large style are held at their ceilings
C19_Witness ==
    /\ Placed
    /\ variant = "part_001"
    /\ \/ /\ call.size = <<1920, 1080>>
          /\ call.styles = NoStyles
          /\ ret.value.fontSizeTop = 40 /\ ret.value.fontSizeBottom = 52
          /\ SizesAt(<<1920, 1088>>) = [top |-> 40, bottom |-> 52]
       \/ /\ call.size = <<7680, 4320>>
          /\ "fontSizeTop" \in DOMAIN call.styles
          /\ ret.value.fontSizeTop = 280 /\ ret.value.fontSizeBottom = 320

----------------------------------------------------------------------------
(* C20 - the timestamp format and its round trip *)

\* the text c is a timestamp H:MM:SS.cc: separators in place, digits
\* elsewhere, the hours not padded
WellFormed(c) ==
    /\ Len(c) >= 10
    /\ c[Len(c) - 2] = "." /\ c[Len(c) - 5] = ":" /\ c[Len(c) - 8] = ":"
    /\ \A i \in DOMAIN c : i \notin {Len(c) - 2, Len(c) - 5, Len(c) - 8} => IsDigit(c[i])
    /\ Len(Hours(c)) > 1 => Hours(c)[1] # "0"

\* C20: for every non-negative time given in whole milliseconds, secToAss
\* produces a string H:MM:SS.cc with minutes and seconds in 00..59 and
\* centiseconds in 00..99, each exactly two digits and hours unpadded, and
\* parsing that string back recovers the input time to within one
\* centisecond: the parsed time is not later than the input and at most
\* 10 ms earlier.
C20_SecToAssRoundTrip ==
    ret.fn = "secToAss" =>
        LET c == ret.value
            ms == call.tSec.num
        IN /\ call.tSec.den = 1000
           /\ WellFormed(c)
           /\ DecimalValue(Minutes(c)) \in 0..59
           /\ DecimalValue(Seconds(c)) \in 0..59
           /\ DecimalValue(Centis(c)) \in 0..99
           /\ AssTimeMs(c) <= ms
           /\ ms - AssTimeMs(c) <= 10

\* C20 witness: 2 h 2 min 5.29 s was formatted as 2:02:05.28 (the floating
\* point product 0.29 * 100 falls below 29), which is 10 ms early
C20_Witness ==
    /\ ret.fn = "secToAss"
    /\ call.tSec = [num |-> 7325290, den |-> 1000]
    /\ ret.value = <<"2", ":", "0", "2", ":", "0", "5", ".", "2", "8">>

----------------------------------------------------------------------------
(* C21 - the colour codec *)

HexDigits ==
    {DigitChars[i] : i \in DOMAIN DigitChars}
    \cup {LowerCase[i] : i \in 1..6} \cup {UpperCase[i] : i \in 1..6}

\* a '#' followed by n hexadecimal digits
IsHexColor(x, n) ==
    /\ x.type = "string"
    /\ Len(x.val) = n + 1
    /\ x.val[1] = "#"
    /\ \A i \in 2..(n + 1) : x.val[i] \in HexDigits

\* '&H00' followed by BB, GG, RR of the text '#RRGGBB'
Encoding(s) ==
    <<"&", "H", "0", "0">> \o SubSeq(s, 6, 7) \o SubSeq(s, 4, 5) \o SubSeq(s, 2, 3)

\* '#RGB' with every nibble doubled
Expansion(s) == <<"#", s[2], s[2], s[3], s[3], s[4], s[4]>>

IsName(x, name) == x.type = "string" /\ x.val = name

\* the results the reference codec allows for an input; for yellow both the
\* CSS value #FFFF00 and the darker #F7B500 count as its canonical hex
Reference(x) ==
    IF IsHexColor(x, 6) THEN {Encoding(x.val)}
    ELSE IF IsHexColor(x, 3) THEN {Encoding(Expansion(x.val))}
    ELSE IF IsName(x, <<"w", "h", "i", "t", "e">>)
    THEN {Encoding(<<"#", "F", "F", "F", "F", "F", "F">>)}
    ELSE IF IsName(x, <<"y", "e", "l", "l", "o", "w">>)
    THEN {Encoding(<<"#", "F", "F", "F", "F", "0", "0">>),
          Encoding(<<"#", "F", "7", "B", "5", "0", "0">>)}
    ELSE IF IsName(x, <<"b", "l", "a", "c", "k">>)
    THEN {Encoding(<<"#", "0", "0", "0", "0", "0", "0">>)}
    ELSE {<<"&", "H", "0", "0", "F", "F", "F", "F", "F", "F">>}

\* C21: on every input cssToAssColor returns what the reference codec
\* returns (letters compared without regard to case): the blue-green-red
\* encoding of a #RRGGBB text, of the expansion of a #RGB text and of the
\* canonical hex of white, yellow and black, and opaque white for every
\* other input.
C21_ColorCodec ==
    ret.fn = "cssToAssColor" =>
        toUpperCase(ret.value) \in {toUpperCase(e) : e \in Reference(call.hex)}

----------------------------------------------------------------------------
(* C22 - the text sanitizer *)

LineBreakMarker == <<"\\", "N">>

\* the text read once from left to right: a line-break sequence becomes one
\* marker, a brace or backslash of the text gets a backslash before it, a
\* control character is dropped, every other character is kept
RECURSIVE Sanitized(_)
Sanitized(t) ==
    IF t = <<>> THEN <<>>
    ELSE IF Len(t) >= 2 /\ t[1] = "\r" /\ t[2] = "\n"
    THEN LineBreakMarker \o Sanitized(Tail(Tail(t)))
    ELSE IF Head(t) \in {"\r", "\n"}
    THEN LineBreakMarker \o Sanitized(Tail(t))
    ELSE IF Head(t) \in {"{", "}", "\\"}
    THEN <<"\\", Head(t)>> \o Sanitized(Tail(t))
    ELSE IF Head(t) \in ControlChars
    THEN Sanitized(Tail(t))
    ELSE <<Head(t)>> \o Sanitized(Tail(t))

\* C22: the sanitizer's output is the trimmed text with every brace and
\* backslash escaped and every line-break sequence (CRLF, CR, LF) replaced,
\* where it stands, by exactly one marker \N that the later escaping steps
\* leave as it is.
C22_SanitizedOnce ==
    ret.fn = "escapeAssText" => ret.value = Sanitized(trim(call.s))

----------------------------------------------------------------------------
(* C23 - caption text never acts as formatting *)

\* the override tags the builder itself writes into a payload
IsTag(e) == e \in {fadeTag(i) : i \in 0..3}

\* the payload without the builder's tags
CaptionPart(text) == SelectSeq(text, LAMBDA e : ~IsTag(e))

\* the renderer reads the caption part as plain text: every backslash starts
\* one of the escapes the sanitizer writes, and no brace stands unescaped
RECURSIVE Inert(_)
Inert(text) ==
    IF text = <<>> THEN TRUE
    ELSE IF Head(text) = "\\"
    THEN /\ Len(text) >= 2
         /\ text[2] \in {"\\", "{", "}", "N"}
         /\ Inert(Tail(Tail(text)))
    ELSE IF Head(text) \in {"{", "}"} THEN FALSE
    ELSE Inert(Tail(text))

\* the caption without its braces and backslashes
Plain(line) == SelectSeq(line, LAMBDA c : c \notin {"{", "}", "\\"})

\* the builder's own blocks of an event: its position and its tags
Blocks(ev) == [style |-> ev.style, pos |-> ev.pos, tags |-> SelectSeq(ev.text, IsTag)]

PlainFrame(f) == [f EXCEPT !.line1 = Plain(@), !.line2 = Plain(@)]

\* C23: the payload of every event is the builder's own block followed by
\* the caption line sanitized exactly once: every brace and backslash of the
\* caption is escaped, and a caption that differs only in such characters
\* gives events with the same blocks.
C23_CaptionIsNeverMarkup ==
    ret.fn = "frameEvents" =>
        LET want == WantedEvents(<<call.frame>>)
            plain == framesToAss(variant, <<PlainFrame(call.frame)>>, NoStyles,
                                 1920, 1080).events
        IN /\ Len(ret.value) = Len(want)
           /\ \A i \in DOMAIN ret.value :
                  /\ ret.value[i].pos # <<>> \/ SelectSeq(ret.value[i].text, IsTag) # <<>>
                  /\ Inert(CaptionPart(ret.value[i].text))
                  /\ CaptionPart(ret.value[i].text) = Sanitized(trim(want[i].line))
           /\ Len(plain) = Len(ret.value)
           /\ \A i \in DOMAIN ret.value : Blocks(plain[i]) = Blocks(ret.value[i])

----------------------------------------------------------------------------
(* C30 - temporary files stay inside the temp directory *)

\* the path names a file below /tmp
InsideTmp(segments) == Len(segments) >= 2 /\ segments[1] = <<"tmp">>

\* C30: every temporary file path the handler derives from job_id lies
\* inside the temp directory /tmp, whatever job_id is, path separators and
\* ".." components included.
C30_TempPathsInsideTmp ==
    ret.fn = "tempPaths" =>
        \A k \in DOMAIN ret.value : InsideTmp(ret.value[k])

----------------------------------------------------------------------------
(* C24 - reserved characters of a path are inert in the filter graph *)

\* the characters that separate pads, filters, chains and options
GraphReserved == {"[", "]", ",", ";", ":"}

\* a run of literal text counts once
Literal(rest) ==
    IF rest # <<>> /\ Head(rest) = "text" THEN rest ELSE <<"text">> \o rest

\* The structure the encoder reads from a graph text: its reserved
\* characters in order, with each run of literal text between them counted
\* once.  Outside quotes a backslash makes the next character literal; the
\* text between two single quotes is literal, and nothing can escape a
\* single quote inside it.
RECURSIVE Structure(_, _)
Structure(t, inQuotes) ==
    IF t = <<>> THEN (IF inQuotes THEN <<"unterminated">> ELSE <<>>)
    ELSE IF inQuotes
    THEN IF Head(t) = "'"
         THEN Structure(Tail(t), FALSE)
         ELSE Literal(Structure(Tail(t), TRUE))
    ELSE IF Head(t) = "'" THEN Structure(Tail(t), TRUE)
    ELSE IF Head(t) = "\\"
    THEN Literal(Structure(IF Len(t) >= 2 THEN Tail(Tail(t)) ELSE <<>>, FALSE))
    ELSE IF Head(t) \in GraphReserved
    THEN <<Head(t)>> \o Structure(Tail(t), FALSE)
    ELSE Literal(Structure(Tail(t), FALSE))

\* C24: whatever characters job_id contains, the filter graph handed to the
\* encoder has the stages, pads and options of the graph of a plain
\* alphanumeric job_id: the path is quoted so that its reserved characters
\* are inert.
C24_PathIsInert ==
    ret.fn = "filterComplex" =>
        Structure(ret.value, FALSE)
            = Structure(filterComplexText(variant, <<"a">>), FALSE)

----------------------------------------------------------------------------
(* C25 - a failed probe falls back to 1920x1080 *)

\* the size printed by ffprobe, if it printed one
Printed(probe) ==
    IF probe.kind = "out" /\ probe.out # <<>> /\ IsDigit(probe.out[1])
    THEN <<DecimalValue(leadingDigits(probe.out)),
           DecimalValue(leadingDigits(
               SubSeq(probe.out, Len(leadingDigits(probe.out)) + 2, Len(probe.out))))>>
    ELSE <<0, 0>>

\* C25: the probe always returns, with a width and a height that are
\* positive integers: the printed size when ffprobe printed one, and 1920
\* by 1080 when ffprobe threw or printed no usable number.
C25_ProbeFallsBack ==
    ret.fn = "getVideoResolution" =>
        /\ DOMAIN ret.value = {"width", "height"}
        /\ ret.value.width \in Nat \ {0}
        /\ ret.value.height \in Nat \ {0}
        /\ <<ret.value.width, ret.value.height>> =
               (IF Printed(call.probe) = <<0, 0>>
                THEN <<1920, 1080>> ELSE Printed(call.probe))

----------------------------------------------------------------------------
(* C26 - the position of an event does not depend on the other frames *)

\* the events framesToAss writes for a list of frames with the style and
\* the video size of the call
EventsOf(frames) ==
    framesToAss(variant, frames, call.styles, call.size[1], call.size[2]).events

\* the events of the i-th frame of the call within the returned document
EventsOfFrame(i) ==
    SubSeq(ret.value.events,
           Len(EventsOf(SubSeq(call.frames, 1, i - 1))) + 1,
           Len(EventsOf(SubSeq(call.frames, 1, i))))

\* C26: every event carries its own absolute position, x being half the
\* video width, and the position of the events of a frame is the one they
\* get when the frame is the only frame of the job: it depends on the style
\* and the resolution, not on the other frames.
C26_PositionIsPerEvent ==
    Built =>
        \A i \in DOMAIN call.frames :
            /\ Len(EventsOfFrame(i)) = Len(EventsOf(<<call.frames[i]>>))
            /\ \A k \in DOMAIN EventsOfFrame(i) :
                   /\ EventsOfFrame(i)[k].pos # <<>>
                   /\ 2 * EventsOfFrame(i)[k].pos[1] = call.size[1]
                   /\ EventsOfFrame(i)[k].pos = EventsOf(<<call.frames[i]>>)[k].pos

----------------------------------------------------------------------------
(* C27 - no retries *)

\* the operations that leave the process: downloads, probe, encoder, upload,
\* callback POST
ExternalOps ==
    {"DOWNLOAD_VIDEO", "DOWNLOAD_WATERMARK", "PROBE_RESOLUTION", "ENCODE",
     "UPLOAD", "CALLBACK"}

\* how many times the handler of r attempted the operation op
Attempts(r, op) == Cardinality({i \in DOMAIN steps[r] : steps[r][i] = op})

\* the object of r is stored in the bucket and has its published URL
Uploaded(r) ==
    /\ upload[r].publicUrl # "none"
    /\ upload[r].destName \in DOMAIN bucket
    /\ failed[r] # "UPLOAD"

\* C27: within one request every external operation (video download,
\* watermark download, resolution probe, encode, upload, callback POST) is
\* attempted at most once, so a failed one is never retried; and the callback
\* POST is attempted only after the upload has succeeded.
C27_AtMostOnce ==
    \A r \in Reqs :
        /\ \A op \in ExternalOps : Attempts(r, op) <= 1
        /\ (Attempts(r, "CALLBACK") > 0 \/ callbackPost[r] # NoPost)
               => Uploaded(r)

\* C27 witness: the upload of a request that names a callback URL failed;
\* the handler answered 500 after its single attempt and never posted
C27_Witness ==
    \E r \in Reqs :
        /\ failed[r] = "UPLOAD"
        /\ ~Falsy(req[r].callback_url)
        /\ Attempts(r, "UPLOAD") = 1
        /\ Attempts(r, "CALLBACK") = 0
        /\ response[r].code = 500

----------------------------------------------------------------------------
(* C28 - every request is answered *)

\* C28: every /render request eventually receives its HTTP response (200,
\* 400, 401 or 500), whatever the collaborators do: a download stream that
\* errors after it has started, an encoder that cannot be started, a callback
\* endpoint that never answers. No request is left pending for ever.
C28_AlwaysAnswered ==
    \A r \in {1} : <>(response[r].code \in {200, 400, 401, 500})

----------------------------------------------------------------------------
(* C29 - no credential, no access *)

\* the request of the call carries neither the header nor the body field
NoCredential == call.header = Undefined /\ call.render_secret = Undefined

\* C29: in every variant of the handler a request that supplies no
\* credential at all (no X-Render-Secret header, no render_secret field) is
\* never authorized, whatever the environment holds, also when RENDER_SECRET
\* is not set.
C29_NoCredentialNoAccess ==
    (ret.fn = "authorize" /\ NoCredential) => ret.value = FALSE

====
